---------------------------- MODULE Spec2Model ----------------------------
(***************************************************************************)
(* A model of the dialogue-state engine of vcni (backend/app):             *)
(*   context.py      ConversationContext, ConversationContextManager       *)
(*   intent_slots.py INTENT_SLOTS, SLOT_QUESTIONS, intent categories       *)
(*   intent_to_ui.py get_ui_mode                                           *)
(*   classifier_client.py ModalClassifierClient.classify                   *)
(*   controller.py   AssistantController.process_input and its handlers    *)
(*                                                                         *)
(* Python's None is the string None.  A dict is a function whose domain is *)
(* its key set; classification.slots, whose iteration order the code       *)
(* depends on, is a sequence of [key, value] pairs with distinct keys.     *)
(* A Turn keeps role and text: no code path reads its timestamp, intent or *)
(* slots.                                                                  *)
(***************************************************************************)
EXTENDS Naturals, Sequences, FiniteSets, TLC

VARIABLES
    registry,   \* which contents INTENT_SLOTS has (fixed at start-up)
    heap,       \* the ConversationContext objects, by object id
    nobjs,      \* number of ConversationContext objects constructed
    store,      \* ConversationContextManager._contexts: user id -> object id (0: absent)
    calls,      \* the process_input coroutines, by call id
    started,    \* number of process_input calls started so far
    now,        \* datetime.now(), in seconds
    iot_service,    \* user_id of the IoTService the shared controller holds
    user_devices,   \* IoTService._user_devices: user id -> status of the lights
    lastop      \* the last ConversationContext method called directly, with its arguments

vars == <<registry, heap, nobjs, store, calls, started, now, iot_service,
          user_devices, lastop>>

None == "None"

\* the truth value of an Optional[str]: None and the empty string are false
Truthy(x) == x # None /\ x # ""

--------------------------------------------------------------------------
(* Bounds of the model *)

\* process_input calls started in one behaviour
MaxTurns == 3
\* ConversationContext objects constructed in one behaviour
MaxObjs == 2
\* Turns a history holds under direct method calls
MaxHistory == 2

Users == {"u1", "u2"}
Calls == {1, 2}
Objs == 1..MaxObjs

--------------------------------------------------------------------------
(* intent_slots.py *)

WEATHER_INTENTS == {"weather_query"}

MUSIC_INTENTS == {"play_music", "play_radio", "play_podcasts", "play_audiobook"}

IOT_INTENTS ==
    {"iot_hue_lighton", "iot_hue_lightoff", "iot_hue_lightchange",
     "iot_hue_lightup", "iot_hue_lightdim", "iot_wemo_on", "iot_wemo_off",
     "iot_coffee", "iot_cleaning"}

GENERAL_INTENTS == {"general_greet", "general_joke", "general_quirky"}

RegisteredIntents ==
    WEATHER_INTENTS \cup MUSIC_INTENTS \cup IOT_INTENTS \cup GENERAL_INTENTS

\* INTENT_SLOTS as shipped but for weather_query, made to require location
ShippedSlots_weather_location ==
    [i \in RegisteredIntents |-> IF i = "weather_query" THEN <<"location">> ELSE <<>>]

\* INTENT_SLOTS as shipped: the "required" list of every registered intent is empty.
ShippedSlots == [i \in RegisteredIntents |-> <<>>]

\* INTENT_SLOTS as the test-suite expects it: weather_query requires location,
\* iot_hue_lighton requires device_name.
TestSuiteSlots ==
    [i \in RegisteredIntents |->
        IF i = "weather_query" THEN <<"location">>
        ELSE IF i = "iot_hue_lighton" THEN <<"device_name">>
        ELSE <<>>]

\* A registry with an intent that requires two slots, in declared order.
TwoSlotSlots ==
    [i \in RegisteredIntents |->
        IF i = "weather_query" THEN <<"location", "datetime">>
        ELSE IF i = "iot_hue_lighton" THEN <<"device_name">>
        ELSE <<>>]

Registries ==
    [shipped |-> ShippedSlots, tests |-> TestSuiteSlots, two |-> TwoSlotSlots]

INTENT_SLOTS == Registries[registry]

\* INTENT_SLOTS.get(intent, {"required": [], "optional": []})["required"]
RequiredSlots(intent) ==
    IF intent \in DOMAIN INTENT_SLOTS THEN INTENT_SLOTS[intent] ELSE <<>>

SLOT_QUESTIONS ==
    [location     |-> "What city would you like the weather for?",
     room         |-> "Which room?",
     device_name  |-> "Which device would you like to control?",
     datetime     |-> "For what date and time?",
     artist       |-> "Which artist would you like to listen to?",
     song         |-> "Which song would you like to play?",
     genre        |-> "What genre of music would you like?",
     playlist     |-> "Which playlist would you like to play?",
     station      |-> "Which radio station?",
     podcast_name |-> "Which podcast would you like to listen to?",
     book_name    |-> "Which audiobook would you like?",
     color        |-> "What color would you like?",
     brightness   |-> "What brightness level? (0-100)",
     strength     |-> "What coffee strength would you prefer?",
     size         |-> "What size cup?",
     mode         |-> "Which cleaning mode?"]

\* SLOT_QUESTIONS.get(next_slot, f"Please provide {next_slot}.")
SlotQuestion(slot) ==
    IF slot \in DOMAIN SLOT_QUESTIONS
    THEN SLOT_QUESTIONS[slot]
    ELSE "Please provide " \o slot \o "."

--------------------------------------------------------------------------
(* intent_to_ui.py *)

\* get_ui_mode as a lookup in INTENT_TO_UI_MODE that fails on a missing key
get_ui_mode_lookup(intent) ==
    IF intent \in WEATHER_INTENTS THEN "weather"
    ELSE IF intent \in MUSIC_INTENTS THEN "music"
    ELSE IF intent \in IOT_INTENTS THEN "smart_home"
    ELSE IF intent \in GENERAL_INTENTS THEN "ai_response"
    ELSE "KeyError"

get_ui_mode(intent) ==
    IF intent = None THEN "ai_response"
    ELSE IF intent \in WEATHER_INTENTS THEN "weather"
    ELSE IF intent \in MUSIC_INTENTS THEN "music"
    ELSE IF intent \in IOT_INTENTS THEN "smart_home"
    ELSE IF intent \in GENERAL_INTENTS THEN "ai_response"
    ELSE "ai_response"

\* the table INTENT_TO_UI_MODE
INTENT_TO_UI_MODE ==
    [i \in {"weather_query",
            "play_music", "play_radio", "play_podcasts", "play_audiobook",
            "iot_hue_lighton", "iot_hue_lightoff", "iot_hue_lightchange",
            "iot_hue_lightup", "iot_hue_lightdim", "iot_wemo_on", "iot_wemo_off",
            "iot_coffee", "iot_cleaning",
            "general_greet", "general_joke", "general_quirky"} |->
        CASE i = "weather_query" -> "weather"
          [] i \in {"play_music", "play_radio", "play_podcasts", "play_audiobook"}
               -> "music"
          [] i \in {"general_greet", "general_joke", "general_quirky"}
               -> "ai_response"
          [] OTHER -> "smart_home"]

--------------------------------------------------------------------------
(* dicts *)

EmptyDict == [k \in {} |-> None]

\* d[k] = v
DictPut(d, k, v) == [x \in DOMAIN d \cup {k} |-> IF x = k THEN v ELSE d[x]]

\* the keys of classification.slots
SlotKeys(slots) == {slots[i].key : i \in DOMAIN slots}

\* classification.slots.get(k, default)
SlotsGet(slots, k, default) ==
    IF k \in SlotKeys(slots)
    THEN (CHOOSE p \in {slots[i] : i \in DOMAIN slots} : p.key = k).value
    ELSE default

\* dict(classification.slots)
RECURSIVE SlotsDict(_)
SlotsDict(slots) ==
    IF slots = <<>> THEN EmptyDict
    ELSE DictPut(SlotsDict(SubSeq(slots, 1, Len(slots) - 1)),
                 slots[Len(slots)].key, slots[Len(slots)].value)

--------------------------------------------------------------------------
(* context.py: ConversationContext *)

Turn(role, text) == [role |-> role, text |-> text]

\* ConversationContext(): the field defaults
NewContext(t) ==
    [history         |-> <<>>,
     current_intent  |-> None,
     collected_slots |-> EmptyDict,
     missing_slots   |-> <<>>,
     awaiting_slot   |-> None,
     last_updated    |-> t]

SLOT_ALIASES ==
    [place_name         |-> "location",
     date               |-> "datetime",
     time               |-> "datetime",
     timeofday          |-> "datetime",
     song_name          |-> "song",
     artist_name        |-> "artist",
     music_genre        |-> "genre",
     music_album        |-> "album",
     playlist_name      |-> "playlist",
     music_descriptor   |-> "genre",
     radio_name         |-> "station",
     podcast_name       |-> "podcast_name",
     podcast_descriptor |-> "podcast_name",
     audiobook_name     |-> "book_name",
     audiobook_author   |-> "author",
     device_type        |-> "device_name",
     house_place        |-> "room",
     color_type         |-> "color",
     change_amount      |-> "brightness",
     coffee_type        |-> "strength",
     drink_type         |-> "strength"]

\* SLOT_ALIASES.get(key, key)
NormalizedKey(key) ==
    IF key \in DOMAIN SLOT_ALIASES THEN SLOT_ALIASES[key] ELSE key

\* len(text.split()) of the input texts of the model
TokenCount(text) ==
    CASE text = "Boston" -> 1
      [] text = "Paris" -> 1
      [] text = "New York" -> 2
      [] text = "what is the weather like in Boston today" -> 8
      [] text = "what is the weather like in Paris today" -> 8
      [] text = "turn on the kitchen lights" -> 5
      [] text = "turn on the kitchen lights please" -> 6
      [] text = "" -> 0
      [] OTHER -> 1

\* the 5 of `len(text.split()) <= 5`
ShortAnswerTokens == 5

\* is_context_answer taking every short text for an answer while an intent is set
is_context_answer_short_text(ctx, text) ==
    IF Truthy(ctx.awaiting_slot) /\ Truthy(ctx.current_intent) THEN TRUE
    ELSE IF Truthy(ctx.current_intent) /\ TokenCount(text) <= ShortAnswerTokens THEN TRUE
    ELSE FALSE

\* is_context_answer with `<` for the `<=` of its length test
is_context_answer_under_five(ctx, text) ==
    IF Truthy(ctx.awaiting_slot) /\ Truthy(ctx.current_intent) THEN TRUE
    ELSE IF ctx.missing_slots # <<>> /\ TokenCount(text) < ShortAnswerTokens THEN TRUE
    ELSE FALSE

is_context_answer(ctx, text) ==
    IF Truthy(ctx.awaiting_slot) /\ Truthy(ctx.current_intent) THEN TRUE
    ELSE IF ctx.missing_slots # <<>> /\ TokenCount(text) <= ShortAnswerTokens THEN TRUE
    ELSE FALSE

calculate_missing_slots(ctx) ==
    IF ~Truthy(ctx.current_intent)
    THEN [ctx EXCEPT !.missing_slots = <<>>]
    ELSE [ctx EXCEPT !.missing_slots =
            SelectSeq(RequiredSlots(ctx.current_intent),
                      LAMBDA slot : slot \notin DOMAIN ctx.collected_slots)]

\* the merge loop with setdefault in place of the assignment: the first write wins
RECURSIVE MergeSlotsKeepFirst(_, _)
MergeSlotsKeepFirst(collected, slots) ==
    IF slots = <<>> THEN collected
    ELSE MergeSlotsKeepFirst(
            IF NormalizedKey(Head(slots).key) \in DOMAIN collected
            THEN collected
            ELSE DictPut(collected, NormalizedKey(Head(slots).key), Head(slots).value),
            Tail(slots))

\* the loop `for key, value in classification.slots.items():
\*               self.collected_slots[SLOT_ALIASES.get(key, key)] = value`
RECURSIVE MergeSlots(_, _)
MergeSlots(collected, slots) ==
    IF slots = <<>> THEN collected
    ELSE MergeSlots(DictPut(collected, NormalizedKey(Head(slots).key), Head(slots).value),
                    Tail(slots))

\* an update that sets the new intent and merges onto the slots of the old one
update_merges_onto_old(ctx, user_input, classification, t) ==
    LET c1 == [ctx EXCEPT !.history = Append(@, Turn("user", user_input))]
        c2 == IF Truthy(classification.intent) /\ ~is_context_answer(c1, user_input)
              THEN [c1 EXCEPT !.current_intent = classification.intent]
              ELSE c1
        c3 == [c2 EXCEPT !.collected_slots = MergeSlots(@, classification.slots)]
    IN  [calculate_missing_slots(c3) EXCEPT !.last_updated = t]

update(ctx, user_input, classification, t) ==
    LET c1 == [ctx EXCEPT !.history = Append(@, Turn("user", user_input))]
        c2 == IF Truthy(classification.intent) /\ ~is_context_answer(c1, user_input)
              THEN [c1 EXCEPT !.current_intent = classification.intent,
                              !.collected_slots = EmptyDict,
                              !.missing_slots = <<>>]
              ELSE c1
        c3 == [c2 EXCEPT !.collected_slots = MergeSlots(@, classification.slots)]
    IN  [calculate_missing_slots(c3) EXCEPT !.last_updated = t]

get_last_user_message(ctx) ==
    LET idx == {i \in DOMAIN ctx.history : ctx.history[i].role = "user"}
    IN  IF idx = {} THEN None
        ELSE ctx.history[CHOOSE i \in idx : \A j \in idx : j <= i].text

is_complete(ctx) == Len(ctx.missing_slots) = 0

\* get_next_question taking the slot it asks for off missing_slots
get_next_question_ctx_pops(ctx) ==
    IF ctx.missing_slots = <<>> THEN ctx
    ELSE [ctx EXCEPT !.awaiting_slot = ctx.missing_slots[1],
                     !.missing_slots = Tail(@)]

\* get_next_question asking for the last missing slot, not the first
get_next_question_ctx_last(ctx) ==
    IF ctx.missing_slots = <<>> THEN ctx
    ELSE [ctx EXCEPT !.awaiting_slot = ctx.missing_slots[Len(ctx.missing_slots)]]

\* the context after get_next_question()
get_next_question_ctx(ctx) ==
    IF ctx.missing_slots = <<>> THEN ctx
    ELSE [ctx EXCEPT !.awaiting_slot = ctx.missing_slots[1]]

\* the value get_next_question() returns
get_next_question(ctx) ==
    IF ctx.missing_slots = <<>> THEN None
    ELSE SlotQuestion(ctx.missing_slots[1])

\* an add_assistant_turn that keeps a window of one earlier Turn
add_assistant_turn_windowed(ctx, text) ==
    [ctx EXCEPT !.history =
        Append(IF Len(@) > 0 THEN Tail(@) ELSE @, Turn("assistant", text))]

add_assistant_turn(ctx, text) ==
    [ctx EXCEPT !.history = Append(@, Turn("assistant", text))]

\* fill_slot without its call of _calculate_missing_slots
fill_slot_no_recalc(ctx, slot_name, value) ==
    LET c1 == [ctx EXCEPT !.collected_slots = DictPut(@, slot_name, value)]
    IN  IF c1.awaiting_slot = slot_name
        THEN [c1 EXCEPT !.awaiting_slot = None]
        ELSE c1

\* fill_slot without its last two lines: a pending question stays pending
fill_slot_keeps_awaiting(ctx, slot_name, value) ==
    calculate_missing_slots(
        [ctx EXCEPT !.collected_slots = DictPut(@, slot_name, value)])

fill_slot(ctx, slot_name, value) ==
    LET c1 == calculate_missing_slots(
                [ctx EXCEPT !.collected_slots = DictPut(@, slot_name, value)])
    IN  IF c1.awaiting_slot = slot_name
        THEN [c1 EXCEPT !.awaiting_slot = None]
        ELSE c1

\* a reset that starts the conversation over, history included
reset_drops_history(ctx) == NewContext(ctx.last_updated)

reset(ctx) ==
    [ctx EXCEPT !.current_intent = None,
                !.collected_slots = EmptyDict,
                !.missing_slots = <<>>,
                !.awaiting_slot = None]

clear_all(ctx) == reset([ctx EXCEPT !.history = <<>>])

--------------------------------------------------------------------------
(* The inputs of the model: what users type and what the classifier endpoint
   answers.  Every text and slot value carries the user it comes from. *)

ShortText(u) == IF u = "u1" THEN "New York" ELSE "Paris"

LongText(u) ==
    IF u = "u1" THEN "what is the weather like in Boston today"
    ELSE "what is the weather like in Paris today"

OtherValue(u) == IF u = "u1" THEN "Boston" ELSE "Lyon"

Texts(u) == {ShortText(u), LongText(u)}

\* every string that originates from user u's inputs
ValuesOf(u) == {ShortText(u), LongText(u), OtherValue(u)}

Pair(k, v) == [key |-> k, value |-> v]

Data(intent, confidence, slots) ==
    [intent |-> intent, confidence |-> confidence, slots |-> slots]

\* JSON bodies the classifier endpoint answers for user u (confidence in percent)
ClassifierData(u) ==
    LET v == ShortText(u)
    IN  { Data("weather_query", 95, <<>>),
          Data("weather_query", 95, <<Pair("location", v)>>),
          Data("play_music", 88, <<Pair("artist", v)>>),
          Data("play_music", 40, <<>>),
          Data("general_greet", 98, <<>>),
          Data(None, 95, <<>>) }

\* further bodies, for the methods of ConversationContext called directly
MoreClassifierData(u) ==
    LET v == ShortText(u)
        w == OtherValue(u)
    IN  { Data("weather_query", 95, <<Pair("place_name", w)>>),
          Data("weather_query", 95, <<Pair("place_name", w), Pair("location", v)>>),
          Data("weather_query", 95, <<Pair("location", v), Pair("place_name", w)>>),
          Data("weather_query", 95, <<Pair("date", v), Pair("timeofday", w)>>),
          Data("weather_query", 40, <<Pair("location", v)>>),
          Data("play_music", 88, <<Pair("playlist_name", v)>>),
          Data("iot_hue_lighton", 92, <<>>),
          Data("iot_hue_lighton", 92, <<Pair("device_type", v)>>),
          Data("calendar_set", 95, <<Pair("event_name", v)>>) }

--------------------------------------------------------------------------
(* classifier_client.py *)

\* Settings.confidence_threshold, in percent
confidence_threshold == 50

ClassificationResult(intent, confidence, slots, needs_clarification) ==
    [intent |-> intent, confidence |-> confidence, slots |-> slots,
     needs_clarification |-> needs_clarification]

\* the classifier's result for a JSON body it answered
Classified(intent, confidence, slots) ==
    ClassificationResult(intent, confidence, slots, confidence < confidence_threshold)

\* ClassificationResult(intent=None, confidence=0.0, needs_clarification=True)
Degraded == ClassificationResult(None, 0, <<>>, TRUE)

\* how the POST to the endpoint ends
ClassifierOutcomes == {"ok", "timeout", "http_status_error", "exception"}

\* classify without its catch-all `except Exception`
classify_except_reraises(outcome) ==
    [raises |-> outcome = "exception", result |-> Degraded]

\* what an except clause of classify does with the exception it caught
classify_except(outcome) == [raises |-> FALSE, result |-> Degraded]

\* ModalClassifierClient.classify: `raises` tells whether an exception leaves it
classify(outcome, data) ==
    IF outcome = "ok"
    THEN [raises |-> FALSE,
          result |-> ClassificationResult(data.intent, data.confidence, data.slots,
                                          data.confidence < confidence_threshold)]
    ELSE classify_except(outcome)

--------------------------------------------------------------------------
(* controller.py *)

Apology == "I'm sorry, I encountered an error. Please try again."

AssistantResponse(response, ui_mode, state, more, question, intent, slots) ==
    [response |-> response, ui_mode |-> ui_mode, state |-> state,
     needs_more_info |-> more, follow_up_question |-> question,
     intent |-> intent, slots |-> slots]

NoResponse == AssistantResponse(None, None, None, FALSE, None, None, EmptyDict)

\* the response the `except Exception` clause of process_input builds
ErrorResponse(ctx) ==
    AssistantResponse(Apology, "ai_response", "error", FALSE, None,
                      ctx.current_intent, EmptyDict)

\* an except clause that catches only some exception types
except_clause_narrow(ctx) ==
    [ctx |-> ctx, raised |-> TRUE, resp |-> NoResponse]

\* try/except of process_input: an Exception raised under `try` is caught and
\* answered; `raised` tells whether the exception leaves process_input
except_clause(ctx) ==
    [ctx |-> ctx, raised |-> FALSE, resp |-> ErrorResponse(ctx)]

\* _execute_intent with weather_query sent to the Music handler
CategoryOf_by_prefix(intent) ==
    IF intent \in MUSIC_INTENTS \cup {"weather_query"} THEN "Music"
    ELSE IF intent \in IOT_INTENTS THEN "IoT"
    ELSE "General"

\* the handler _execute_intent picks for an intent
CategoryOf(intent) ==
    IF intent \in WEATHER_INTENTS THEN "Weather"
    ELSE IF intent \in MUSIC_INTENTS THEN "Music"
    ELSE IF intent \in IOT_INTENTS THEN "IoT"
    ELSE "General"

\* the loop `for slot_name, slot_value in classification.slots.items():
\*               if slot_name not in context.collected_slots: context.fill_slot(...)`
\* without its test: every extracted slot is filled
RECURSIVE FillAdditional_overwrite(_, _)
FillAdditional_overwrite(ctx, slots) ==
    IF slots = <<>> THEN ctx
    ELSE FillAdditional_overwrite(
            fill_slot(ctx, Head(slots).key, Head(slots).value), Tail(slots))

\* the loop that skips the names already collected
RECURSIVE FillAdditional(_, _)
FillAdditional(ctx, slots) ==
    IF slots = <<>> THEN ctx
    ELSE FillAdditional(
            IF Head(slots).key \notin DOMAIN ctx.collected_slots
            THEN fill_slot(ctx, Head(slots).key, Head(slots).value)
            ELSE ctx,
            Tail(slots))

\* The outcome of a synchronous stretch of process_input: the context it leaves,
\* and either the response it returns or the handler it is about to await.
Returned(ctx, path, resp) ==
    [ctx |-> ctx, path |-> path, awaits |-> FALSE, category |-> None,
     intent |-> None, slots |-> EmptyDict, message |-> None, resp |-> resp]

Awaiting(ctx, path, category, message) ==
    [ctx |-> ctx, path |-> path, awaits |-> TRUE, category |-> category,
     intent |-> ctx.current_intent, slots |-> ctx.collected_slots,
     message |-> message, resp |-> NoResponse]

build_slot_request(ctx, path) ==
    LET question == get_next_question(ctx)
        c1 == get_next_question_ctx(ctx)
        c2 == IF Truthy(question) THEN add_assistant_turn(c1, question) ELSE c1
    IN  Returned(c2, path,
            AssistantResponse(
                IF Truthy(question) THEN question ELSE "I need more information.",
                get_ui_mode(c2.current_intent), "awaiting_info", TRUE, question,
                c2.current_intent, c2.collected_slots))

\* _handle_general up to its await of the LLM service
handle_general(ctx, path) ==
    LET last == get_last_user_message(ctx)
    IN  Awaiting(ctx, path, "General", IF Truthy(last) THEN last ELSE "Hello")

\* _execute_intent up to the await of the category's service
execute_intent(ctx, path) ==
    IF CategoryOf(ctx.current_intent) = "General"
    THEN handle_general(ctx, path)
    ELSE Awaiting(ctx, path, CategoryOf(ctx.current_intent), None)

\* a slot-filling step that fills the awaited slot only when the classifier
\* extracted it
handle_slot_filling_extracted_only(ctx, text, classification) ==
    LET c1 == IF ctx.awaiting_slot \in SlotKeys(classification.slots)
              THEN fill_slot(ctx, ctx.awaiting_slot,
                             SlotsGet(classification.slots, ctx.awaiting_slot, text))
              ELSE ctx
        c2 == FillAdditional(c1, classification.slots)
    IN  IF ~is_complete(c2)
        THEN build_slot_request(c2, "slot")
        ELSE execute_intent(c2, "slot")

handle_slot_filling(ctx, text, classification) ==
    LET value == IF classification.slots # <<>> /\ Truthy(ctx.awaiting_slot)
                 THEN SlotsGet(classification.slots, ctx.awaiting_slot, text)
                 ELSE text
        c1 == IF Truthy(ctx.awaiting_slot)
              THEN fill_slot(ctx, ctx.awaiting_slot, value)
              ELSE ctx
        c2 == FillAdditional(c1, classification.slots)
    IN  IF ~is_complete(c2)
        THEN build_slot_request(c2, "slot")
        ELSE execute_intent(c2, "slot")

\* a slot-filling branch taken for short texts only
TakesSlotPath_short_only(ctx, text) ==
    Truthy(ctx.awaiting_slot) /\ TokenCount(text) <= ShortAnswerTokens

\* whether process_input takes the slot-filling branch
TakesSlotPath(ctx, text) ==
    Truthy(ctx.awaiting_slot) /\ is_context_answer(ctx, text)

\* after_update with the completeness test inverted
after_update_inverted(ctx, classification) ==
    IF classification.needs_clarification \/ ~Truthy(classification.intent)
    THEN handle_general(ctx, "new")
    ELSE IF is_complete(ctx)
    THEN build_slot_request(ctx, "new")
    ELSE execute_intent(ctx, "new")

\* after_update without the low-confidence / no-intent branch
after_update_no_clarify(ctx, classification) ==
    IF ~is_complete(ctx)
    THEN build_slot_request(ctx, "new")
    ELSE execute_intent(ctx, "new")

\* what follows context.update on the new-intent branch
after_update(ctx, classification) ==
    IF classification.needs_clarification \/ ~Truthy(classification.intent)
    THEN handle_general(ctx, "new")
    ELSE IF ~is_complete(ctx)
    THEN build_slot_request(ctx, "new")
    ELSE execute_intent(ctx, "new")

\* process_input from the classifier's answer to its next await or return
after_classify(ctx, text, classification, t) ==
    IF TakesSlotPath(ctx, text)
    THEN handle_slot_filling(ctx, text, classification)
    ELSE after_update(update(ctx, text, classification, t), classification)

\* How the awaited service of a category can end.  WeatherService.get_weather
\* asserts and re-raises; MusicService.search raises on an empty or failed
\* search, and always when the query is the dict view `slots.values()`;
\* IoTService.control_device and the LLM services (which catch every
\* Exception themselves) do not raise.
HandlerOutcomes(category, slots) ==
    CASE category = "Weather" -> {"ok", "raise"}
      [] category = "Music" ->
            IF DOMAIN slots \cap {"song", "artist", "genre"} = {} /\ DOMAIN slots # {}
            THEN {"raise"}
            ELSE {"ok", "raise"}
      [] OTHER -> {"ok"}

\* the ui_mode a handler puts in its response; the LLM's tool calls pick the
\* General handler's
HandlerUiModes(category) ==
    CASE category = "Weather" -> {"weather"}
      [] category = "Music" -> {"music"}
      [] category = "IoT" -> {"smart_home"}
      [] OTHER -> {"ai_response", "weather"}

\* the text the category's service answers
ReplyText(category) ==
    CASE category = "Weather" -> "The weather is currently sunny."
      [] category = "Music" -> "Now playing. Enjoy the music!"
      [] category = "IoT" -> "Done! I've updated your smart home."
      [] OTHER -> "Hey there! I'm VCNI."

\* a handler that answers without resetting the context
handler_completes_no_reset(c, ctx, ui_mode) ==
    LET c1 == add_assistant_turn(ctx, ReplyText(c.category))
    IN  [ctx |-> c1, raised |-> FALSE,
         resp |-> AssistantResponse(
                    ReplyText(c.category), ui_mode, "completed", FALSE, None,
                    c.intent, IF c.category = "General" THEN EmptyDict ELSE c.slots)]

\* a handler from the return of its service to its own return; c is the call
\* record, ctx the context as it is now
handler_completes(c, ctx, ui_mode) ==
    LET c1 == add_assistant_turn(ctx, ReplyText(c.category))
        c2 == reset(c1)
    IN  [ctx |-> c2, raised |-> FALSE,
         resp |-> AssistantResponse(
                    ReplyText(c.category), ui_mode, "completed", FALSE, None,
                    IF c.category \in {"Weather", "Music"}
                    THEN c2.current_intent ELSE c.intent,
                    IF c.category = "General" THEN EmptyDict ELSE c.slots)]

\* an error path that resets the context before answering
handler_raises_resets(c, ctx) == except_clause(reset(ctx))

\* the awaited service raises: nothing of the handler after the await runs,
\* and the exception reaches the except clause of process_input
handler_raises(c, ctx) == except_clause(ctx)

--------------------------------------------------------------------------
(* context.py: ConversationContextManager *)

\* get_context that constructs a context on every call
get_context_id_fresh(u) == nobjs + 1

\* get_context with one key for every user
get_context_id_shared(u) == IF store[u] = 0 /\ nobjs = 0 THEN nobjs + 1 ELSE 1

\* get_context: the object id it returns, constructing the context if absent
get_context_id(u) == IF store[u] = 0 THEN nobjs + 1 ELSE store[u]

\* reset_context that stores a context for an id it does not know
reset_context_creates(hp, st, u) ==
    [heap |-> IF st[u] # 0 THEN [hp EXCEPT ![st[u]] = reset(@)] ELSE hp,
     store |-> IF st[u] = 0 /\ nobjs > 0 THEN [st EXCEPT ![u] = nobjs] ELSE st]

\* reset_context(user_id) on the contexts hp stored under st
reset_context(hp, st, u) ==
    [heap |-> IF st[u] # 0 THEN [hp EXCEPT ![st[u]] = reset(@)] ELSE hp,
     store |-> st]

\* remove_context(user_id): self._contexts.pop(user_id, None)
remove_context(hp, st, u) ==
    [heap |-> hp, store |-> [st EXCEPT ![u] = 0]]

\* the default of cleanup_old_contexts' max_age_seconds
DefaultMaxAge == 1800

\* the user ids cleanup_old_contexts collects in to_remove at time t
to_remove(hp, st, t, max_age_seconds) ==
    {u \in Users : st[u] # 0 /\ t - hp[st[u]].last_updated > max_age_seconds}

\* cleanup_old_contexts with `age >= max_age_seconds`
cleanup_old_contexts_ge(hp, st, t, max_age_seconds) ==
    [heap |-> hp,
     store |-> [u \in Users |->
                  IF st[u] # 0 /\ t - hp[st[u]].last_updated >= max_age_seconds
                  THEN 0 ELSE st[u]],
     ret |-> Cardinality({u \in Users :
                st[u] # 0 /\ t - hp[st[u]].last_updated >= max_age_seconds})]

\* cleanup_old_contexts(max_age_seconds) called at time t
cleanup_old_contexts(hp, st, t, max_age_seconds) ==
    [heap |-> hp,
     store |-> [u \in Users |->
                  IF u \in to_remove(hp, st, t, max_age_seconds) THEN 0 ELSE st[u]],
     ret |-> Cardinality(to_remove(hp, st, t, max_age_seconds))]

--------------------------------------------------------------------------
(* services/iot_service.py, and _handle_iot's use of it *)

\* the lights of DEFAULT_DEVICES; no device_name of the model matches the
\* thermostat, the locks or the camera, whose state therefore never changes
LightNames == {"Living Room Lights", "Bedroom Lights", "Kitchen Lights"}

\* status of the lights in DEFAULT_DEVICES
DEFAULT_DEVICES ==
    [d \in LightNames |-> d # "Bedroom Lights"]

\* the keys IoTService._user_devices can get: the user ids, and the default
\* user_id of IoTService and of the controller built by get_controller
DeviceKeys == Users \cup {"default"}

\* _get_devices: the list of user_id, created from the defaults at first use
get_devices(devices, user_id) ==
    IF user_id \in DOMAIN devices THEN devices
    ELSE DictPut(devices, user_id, DEFAULT_DEVICES)

\* _find_devices on the patterns of the model: "lights" is a substring of the
\* name of every light; a city name matches no device
find_devices(name_pattern) ==
    IF name_pattern = "lights" THEN LightNames ELSE {}

\* control_device for an IoTService bound to user_id
control_device(devices, user_id, name_pattern, action) ==
    LET d1 == get_devices(devices, user_id)
    IN  [d1 EXCEPT ![user_id] =
            [d \in LightNames |->
                IF d \in find_devices(name_pattern)
                THEN CASE action = "on" -> TRUE
                       [] action = "off" -> FALSE
                       [] OTHER -> ~ @[d]
                ELSE @[d]]]

\* _handle_iot: intent -> action ("set" without a value changes nothing the
\* model keeps, and no intent of the model is iot_hue_lightchange)
action_type(intent) ==
    CASE intent \in {"iot_hue_lighton", "iot_wemo_on", "iot_hue_lightup"} -> "on"
      [] intent \in {"iot_hue_lightoff", "iot_wemo_off", "iot_hue_lightdim"} -> "off"
      [] OTHER -> "toggle"

\* _handle_iot: slots.get("device_name") or slots.get("room", "lights")
device_name(slots) ==
    IF "device_name" \in DOMAIN slots /\ Truthy(slots["device_name"])
    THEN slots["device_name"]
    ELSE IF "room" \in DOMAIN slots THEN slots["room"] ELSE "lights"

--------------------------------------------------------------------------
(* The state machine *)

\* a process_input coroutine that is not running
IdleCall ==
    [pc |-> "idle", user |-> None, text |-> None, ctx |-> 0,
     cls |-> Degraded, pre |-> NewContext(0), path |-> None,
     category |-> None, intent |-> None, slots |-> EmptyDict,
     message |-> None, handler |-> None, resp |-> NoResponse]

NoOp ==
    [op |-> None, pre |-> NewContext(0), text |-> None, cls |-> Degraded,
     name |-> None, value |-> None, ret |-> None]

\* the record of a method call: the context before it, its arguments, its result
Op(op, pre, text, cls, name, value, ret) ==
    [op |-> op, pre |-> pre, text |-> text, cls |-> cls,
     name |-> name, value |-> value, ret |-> ret]

InitWith(regs) ==
    /\ registry \in regs
    /\ heap = [o \in Objs |-> NewContext(0)]
    /\ nobjs = 0
    /\ store = [u \in Users |-> 0]
    /\ calls = [c \in Calls |-> IdleCall]
    /\ started = 0
    /\ now = 0
    /\ iot_service = "default"
    /\ user_devices = EmptyDict
    /\ lastop = NoOp

Init == InitWith({"shipped", "tests"})

\* process_input up to its await of the classifier (controller.py 56-65)
StartCall(c, u, text) ==
    /\ calls[c].pc \in {"idle", "done", "raised"}
    /\ started < MaxTurns
    /\ store[u] = 0 => nobjs < MaxObjs
    /\ LET id == get_context_id(u)
       IN  /\ IF store[u] = 0
              THEN /\ heap' = [heap EXCEPT ![id] = NewContext(now)]
                   /\ nobjs' = nobjs + 1
                   /\ store' = [store EXCEPT ![u] = id]
              ELSE UNCHANGED <<heap, nobjs, store>>
           /\ calls' = [calls EXCEPT ![c] =
                [IdleCall EXCEPT !.pc = "classifying", !.user = u,
                                 !.text = text, !.ctx = id]]
    /\ started' = started + 1
    /\ iot_service' = u
    /\ UNCHANGED <<registry, user_devices, now, lastop>>

\* the classifier answers: process_input runs to its next await or to its return
\* (controller.py 65-86).  IoTService.control_device has no await of its own,
\* so a dispatched IoT intent changes the device list in this same stretch,
\* through the IoTService the controller holds at this moment.
ClassifierReturns(c, outcome, data) ==
    /\ calls[c].pc = "classifying"
    /\ LET call == calls[c]
           ctx == heap[call.ctx]
           r == classify(outcome, data)
           s == after_classify(ctx, call.text, r.result, now)
           e == except_clause(ctx)
       IN  IF r.raises
           THEN /\ calls' = [calls EXCEPT ![c] =
                        [call EXCEPT !.pc = IF e.raised THEN "raised" ELSE "done",
                                     !.pre = ctx, !.resp = e.resp]]
                /\ UNCHANGED <<heap, user_devices>>
           ELSE /\ heap' = [heap EXCEPT ![call.ctx] = s.ctx]
                /\ calls' = [calls EXCEPT ![c] =
                        [call EXCEPT !.pc = IF s.awaits THEN "handling" ELSE "done",
                                     !.cls = r.result, !.pre = ctx,
                                     !.path = s.path, !.category = s.category,
                                     !.intent = s.intent, !.slots = s.slots,
                                     !.message = s.message, !.resp = s.resp]]
                /\ user_devices' =
                        IF s.awaits /\ s.category = "IoT"
                        THEN control_device(user_devices, iot_service,
                                            device_name(s.slots), action_type(s.intent))
                        ELSE user_devices
    /\ UNCHANGED <<registry, iot_service, nobjs, store, started, now, lastop>>

\* the awaited service answers or raises: the handler, and process_input, return
HandlerReturns(c, outcome, ui_mode) ==
    /\ calls[c].pc = "handling"
    /\ outcome \in HandlerOutcomes(calls[c].category, calls[c].slots)
    /\ ui_mode \in HandlerUiModes(calls[c].category)
    /\ LET call == calls[c]
           ctx == heap[call.ctx]
           h == IF outcome = "ok"
                THEN handler_completes(call, ctx, ui_mode)
                ELSE handler_raises(call, ctx)
       IN  /\ heap' = [heap EXCEPT ![call.ctx] = h.ctx]
           /\ calls' = [calls EXCEPT ![c] =
                    [call EXCEPT !.pc = IF h.raised THEN "raised" ELSE "done",
                                 !.handler = outcome, !.resp = h.resp]]
    /\ UNCHANGED <<registry, iot_service, user_devices, nobjs, store, started, now, lastop>>

UiModes == {"ai_response", "weather", "music", "smart_home"}

\* the session whose turns call slot c runs when turns of one session do not overlap
SessionOf(c) == IF c = 1 THEN "u1" ELSE "u2"

Next ==
    \/ \E c \in Calls : \E text \in Texts(SessionOf(c)) : StartCall(c, SessionOf(c), text)
    \/ \E c \in Calls, outcome \in ClassifierOutcomes :
          \E data \in ClassifierData(calls[c].user) : ClassifierReturns(c, outcome, data)
    \/ \E c \in Calls, outcome \in {"ok", "raise"}, ui_mode \in UiModes :
          HandlerReturns(c, outcome, ui_mode)

Spec == Init /\ [][Next]_vars

\* process_input with registries that require one and two slots
InitSlots == InitWith({"tests", "two"})

SpecSlots == InitSlots /\ [][Next]_vars

--------------------------------------------------------------------------
(* process_input next to the other methods of the context manager, called at
   any moment between the steps of the turns, with a clock. *)

\* the turns started next to the manager's methods
StoreTurns == 2

\* the instants, in seconds, at which something happens
Instants == {0, DefaultMaxAge, DefaultMaxAge + 1}

\* the max_age_seconds cleanup_old_contexts is called with
MaxAges == {1, DefaultMaxAge}

\* classifier bodies of the turns run next to the manager's methods
StoreData(u) ==
    { Data("weather_query", 95, <<>>),
      Data("weather_query", 95, <<Pair("location", ShortText(u))>>) }

MgrFrame == UNCHANGED <<registry, iot_service, user_devices, nobjs, calls, started, now>>

MgrResetContext(u) ==
    /\ heap' = reset_context(heap, store, u).heap
    /\ store' = reset_context(heap, store, u).store
    /\ lastop' = Op("reset_context", NewContext(0), None, Degraded, u, None, None)
    /\ MgrFrame

MgrRemoveContext(u) ==
    /\ heap' = remove_context(heap, store, u).heap
    /\ store' = remove_context(heap, store, u).store
    /\ lastop' = Op("remove_context", NewContext(0), None, Degraded, u, None, None)
    /\ MgrFrame

MgrCleanup(max_age_seconds) ==
    /\ heap' = cleanup_old_contexts(heap, store, now, max_age_seconds).heap
    /\ store' = cleanup_old_contexts(heap, store, now, max_age_seconds).store
    /\ lastop' = Op("cleanup_old_contexts", NewContext(0), None, Degraded, None,
                    max_age_seconds,
                    cleanup_old_contexts(heap, store, now, max_age_seconds).ret)
    /\ MgrFrame

\* time passes until instant t
Tick(t) ==
    /\ t > now
    /\ now' = t
    /\ UNCHANGED <<registry, iot_service, user_devices, heap, nobjs, store, calls, started, lastop>>

InitStore == InitWith({"tests"})

NextStore ==
    \/ \E c \in Calls :
          started < StoreTurns /\ StartCall(c, SessionOf(c), ShortText(SessionOf(c)))
    \/ \E c \in Calls :
          \E data \in StoreData(calls[c].user) : ClassifierReturns(c, "ok", data)
    \/ \E c \in Calls, outcome \in {"ok", "raise"}, ui_mode \in UiModes :
          HandlerReturns(c, outcome, ui_mode)
    \/ \E u \in Users : MgrResetContext(u)
    \/ \E u \in Users : MgrRemoveContext(u)
    \/ \E max_age_seconds \in MaxAges : MgrCleanup(max_age_seconds)
    \/ \E t \in Instants : Tick(t)

SpecStore == InitStore /\ [][NextStore]_vars

--------------------------------------------------------------------------
(* Two process_input calls for the same session id, each free to run while
   the other is suspended at an await.  With the shipped registry no input is
   a context answer, so update rebinds collected_slots whenever it changes it
   and the dict a suspended handler holds is never written by the other call. *)

OverlapUser == "u1"

InitOverlap == InitWith({"shipped"})

NextOverlap ==
    \/ \E c \in Calls : \E text \in Texts(OverlapUser) : StartCall(c, OverlapUser, text)
    \/ \E c \in Calls, outcome \in ClassifierOutcomes :
          \E data \in ClassifierData(OverlapUser) : ClassifierReturns(c, outcome, data)
    \/ \E c \in Calls, outcome \in {"ok", "raise"}, ui_mode \in UiModes :
          HandlerReturns(c, outcome, ui_mode)

SpecOverlap == InitOverlap /\ [][NextOverlap]_vars

--------------------------------------------------------------------------
(* process_input whose task can be cancelled while it is suspended at an
   await: CancelledError is raised there, it is not an Exception, so no except
   clause of process_input or of the services runs and nothing after the
   await is executed. *)

Abandon(c) ==
    /\ calls[c].pc \in {"classifying", "handling"}
    /\ calls' = [calls EXCEPT ![c] =
            [@ EXCEPT !.pc = "abandoned",
                      !.pre = IF calls[c].pc = "classifying"
                              THEN heap[calls[c].ctx] ELSE @]]
    /\ UNCHANGED <<registry, iot_service, user_devices, heap, nobjs, store, started, now, lastop>>

NextAbandon ==
    \/ \E c \in Calls : \E text \in Texts(SessionOf(c)) : StartCall(c, SessionOf(c), text)
    \/ \E c \in Calls, outcome \in ClassifierOutcomes :
          \E data \in ClassifierData(calls[c].user) : ClassifierReturns(c, outcome, data)
    \/ \E c \in Calls, outcome \in {"ok", "raise"}, ui_mode \in UiModes :
          HandlerReturns(c, outcome, ui_mode)
    \/ \E c \in Calls : Abandon(c)

SpecAbandon == Init /\ [][NextAbandon]_vars

--------------------------------------------------------------------------
(* process_input on the light-switching turns of tests/test_controller.py
   test_iot_light_flow: the classifier answers iot_hue_lighton at 0.92, with
   and without a device_name. *)

IotData(u) ==
    {Data("iot_hue_lighton", 92, <<>>),
     Data("iot_hue_lighton", 92, <<Pair("device_name", ShortText(u))>>)}

NextIot ==
    \/ \E c \in Calls : \E text \in Texts(SessionOf(c)) : StartCall(c, SessionOf(c), text)
    \/ \E c \in Calls, outcome \in ClassifierOutcomes :
          \E data \in IotData(calls[c].user) : ClassifierReturns(c, outcome, data)
    \/ \E c \in Calls, outcome \in {"ok", "raise"}, ui_mode \in UiModes :
          HandlerReturns(c, outcome, ui_mode)

SpecIot == Init /\ [][NextIot]_vars

--------------------------------------------------------------------------
(* process_input on answers to a pending question: the classifier extracts
   the awaited slot, another slot, a slot collected on an earlier turn with a
   different value, or nothing. *)

AnswerData(u) ==
    {Data("weather_query", 95, <<>>),
     Data("weather_query", 95, <<Pair("location", ShortText(u))>>),
     Data("weather_query", 95, <<Pair("location", OtherValue(u))>>),
     Data("weather_query", 95, <<Pair("datetime", OtherValue(u))>>),
     Data("weather_query", 95, <<Pair("datetime", OtherValue(u)),
                                 Pair("location", OtherValue(u))>>)}

NextAnswer ==
    \/ \E c \in Calls : \E text \in Texts(SessionOf(c)) : StartCall(c, SessionOf(c), text)
    \/ \E c \in Calls, outcome \in ClassifierOutcomes :
          \E data \in AnswerData(calls[c].user) : ClassifierReturns(c, outcome, data)
    \/ \E c \in Calls, outcome \in {"ok", "raise"}, ui_mode \in UiModes :
          HandlerReturns(c, outcome, ui_mode)

SpecAnswer == InitSlots /\ [][NextAnswer]_vars

--------------------------------------------------------------------------
(* process_input on sessions whose handlers fail: intents whose services
   raise, followed by inputs with another intent, with no intent and with an
   empty intent string, in short and in long texts. *)

RetryData(u) ==
    {Data("weather_query", 95, <<>>),
     Data("weather_query", 95, <<Pair("location", ShortText(u))>>),
     Data("play_music", 88, <<Pair("artist", ShortText(u))>>),
     Data("play_music", 40, <<>>),
     Data("", 95, <<>>),
     Data(None, 95, <<>>)}

NextRetry ==
    \/ \E c \in Calls : \E text \in Texts(SessionOf(c)) : StartCall(c, SessionOf(c), text)
    \/ \E c \in Calls, outcome \in ClassifierOutcomes :
          \E data \in RetryData(calls[c].user) : ClassifierReturns(c, outcome, data)
    \/ \E c \in Calls, outcome \in {"ok", "raise"}, ui_mode \in UiModes :
          HandlerReturns(c, outcome, ui_mode)

SpecRetry == Init /\ [][NextRetry]_vars

--------------------------------------------------------------------------
(* The methods of one ConversationContext, heap[1], called directly in any
   order with any arguments (as tests/test_context.py does). *)

AllData == ClassifierData("u1") \cup MoreClassifierData("u1")

\* the classifications update is called with
Classifications ==
    {classify("ok", d).result : d \in AllData} \cup {Degraded}

\* the slot names fill_slot is called with
FillNames == {"location", "datetime", "device_name", "place_name"}

CtxFrame == UNCHANGED <<registry, iot_service, user_devices, nobjs, store, calls, started, now>>

CtxUpdate(text, cls) ==
    /\ Len(heap[1].history) < MaxHistory
    /\ heap' = [heap EXCEPT ![1] = update(heap[1], text, cls, now)]
    /\ lastop' = Op("update", heap[1], text, cls, None, None, None)
    /\ CtxFrame

CtxFillSlot(name, value) ==
    /\ heap' = [heap EXCEPT ![1] = fill_slot(heap[1], name, value)]
    /\ lastop' = Op("fill_slot", heap[1], None, Degraded, name, value, None)
    /\ CtxFrame

CtxGetNextQuestion ==
    /\ heap' = [heap EXCEPT ![1] = get_next_question_ctx(heap[1])]
    /\ lastop' = Op("get_next_question", heap[1], None, Degraded, None, None,
                    get_next_question(heap[1]))
    /\ CtxFrame

CtxAddAssistantTurn(text) ==
    /\ Len(heap[1].history) < MaxHistory
    /\ heap' = [heap EXCEPT ![1] = add_assistant_turn(heap[1], text)]
    /\ lastop' = Op("add_assistant_turn", heap[1], text, Degraded, None, None, None)
    /\ CtxFrame

CtxReset ==
    /\ heap' = [heap EXCEPT ![1] = reset(heap[1])]
    /\ lastop' = Op("reset", heap[1], None, Degraded, None, None, None)
    /\ CtxFrame

CtxClearAll ==
    /\ heap' = [heap EXCEPT ![1] = clear_all(heap[1])]
    /\ lastop' = Op("clear_all", heap[1], None, Degraded, None, None, None)
    /\ CtxFrame

InitCtx == InitWith({"shipped", "tests", "two"})

NextCtx ==
    \/ \E text \in Texts("u1"), cls \in Classifications : CtxUpdate(text, cls)
    \/ \E name \in FillNames : CtxFillSlot(name, OtherValue("u1"))
    \/ CtxGetNextQuestion
    \/ CtxAddAssistantTurn("Which room?")
    \/ CtxReset
    \/ CtxClearAll

SpecCtx == InitCtx /\ [][NextCtx]_vars

--------------------------------------------------------------------------
(* Direct calls of the ConversationContext methods together with
   is_context_answer, asked about texts on both sides of its length test. *)

QueryTexts ==
    {"", ShortText("u1"), "turn on the kitchen lights",
     "turn on the kitchen lights please", LongText("u1")}

CtxIsContextAnswer(text) ==
    /\ heap' = heap
    /\ lastop' = Op("is_context_answer", heap[1], text, Degraded, None, None,
                    is_context_answer(heap[1], text))
    /\ CtxFrame

NextQuery ==
    \/ NextCtx
    \/ \E text \in QueryTexts : CtxIsContextAnswer(text)

SpecQuery == InitCtx /\ [][NextQuery]_vars

--------------------------------------------------------------------------
(* Direct calls of update while the clock moves: classifications with a
   known intent, with no intent and with an empty intent string, each with
   and without slots, on contexts with and without a pending question. *)

UpdateIntents == {"weather_query", "play_music", None, ""}

UpdateSlots ==
    {<<>>, <<Pair("location", OtherValue("u1"))>>, <<Pair("place_name", ShortText("u1"))>>}

UpdateClassifications ==
    {Classified(intent, 95, slots) : intent \in UpdateIntents, slots \in UpdateSlots}

NextUpdate ==
    \/ \E text \in Texts("u1"), cls \in UpdateClassifications : CtxUpdate(text, cls)
    \/ CtxGetNextQuestion
    \/ CtxReset
    \/ \E t \in Instants : Tick(t)

SpecUpdate == InitCtx /\ [][NextUpdate]_vars

--------------------------------------------------------------------------
(* Direct calls of fill_slot between updates whose classifications carry no
   slots: here collected_slots is written by fill_slot alone, so its keys are
   the names fill_slot was called with since the slots were last discarded. *)

SlotlessClassifications ==
    {Classified(intent, 95, <<>>) : intent \in {"weather_query", "iot_hue_lighton", None}}

NextFill ==
    \/ \E text \in Texts("u1"), cls \in SlotlessClassifications : CtxUpdate(text, cls)
    \/ \E name \in FillNames : CtxFillSlot(name, OtherValue("u1"))
    \/ CtxGetNextQuestion
    \/ CtxReset
    \/ CtxClearAll

SpecFill == InitCtx /\ [][NextFill]_vars

--------------------------------------------------------------------------
(* ModalClassifierClient.classify called with any text, for any way the POST
   to the endpoint ends. *)

DoClassify(text, outcome, data) ==
    /\ LET r == classify(outcome, data)
       IN  lastop' = Op("classify", NewContext(0), text, r.result, outcome,
                        data.intent, IF r.raises THEN "raised" ELSE "returned")
    /\ UNCHANGED <<registry, iot_service, user_devices, heap, nobjs, store, calls, started, now>>

NextClassify ==
    \E u \in Users : \E text \in Texts(u), outcome \in ClassifierOutcomes,
                        data \in ClassifierData(u) \cup MoreClassifierData(u) :
        DoClassify(text, outcome, data)

InitClassify == InitWith({"shipped"})

SpecClassify == InitClassify /\ [][NextClassify]_vars

--------------------------------------------------------------------------
(* get_ui_mode and the dispatch of _execute_intent applied to the intents the
   classifier can answer, registered or not, next to classify. *)

\* intents of the classifier's label set that the assistant does not register
UnregisteredIntents == {"calendar_set", "play_game", "iot_hue_lightstrobe"}

RoutedIntents == RegisteredIntents \cup UnregisteredIntents \cup {None}

DoGetUiMode(intent) ==
    /\ lastop' = Op("get_ui_mode", NewContext(0), None, Degraded, intent,
                    CategoryOf(intent), get_ui_mode(intent))
    /\ UNCHANGED <<registry, iot_service, user_devices, heap, nobjs, store, calls, started, now>>

NextRoute ==
    \/ \E u \in Users : \E text \in Texts(u), outcome \in ClassifierOutcomes,
                           data \in ClassifierData(u) \cup MoreClassifierData(u) :
          DoClassify(text, outcome, data)
    \/ \E intent \in RoutedIntents : DoGetUiMode(intent)

SpecRoute == InitClassify /\ [][NextRoute]_vars

--------------------------------------------------------------------------
(* Properties *)

\* the elements of a sequence
Range(seq) == {seq[i] : i \in DOMAIN seq}

\* the position of x in a sequence without repetitions
IndexOf(seq, x) == CHOOSE i \in DOMAIN seq : seq[i] = x

\* ctx has no intent and no slot state
IdleContext(ctx) ==
    /\ ctx.current_intent = None
    /\ ctx.collected_slots = EmptyDict
    /\ ctx.missing_slots = <<>>
    /\ ctx.awaiting_slot = None

\* C1: after every method of a ConversationContext, called in any order,
\* missing_slots lists exactly the required slots of current_intent that are
\* not keys of collected_slots, each once and in the order the registry
\* declares them; it is empty when current_intent is unset or unregistered.
C1_MissingSlotsDerived ==
    \A o \in Objs :
        LET ctx == heap[o]
            required == IF ctx.current_intent \in DOMAIN Registries[registry]
                        THEN Registries[registry][ctx.current_intent]
                        ELSE <<>>
            missing == ctx.missing_slots
        IN  /\ Range(missing) = Range(required) \ DOMAIN ctx.collected_slots
            /\ \A i, j \in DOMAIN missing :
                  i < j => IndexOf(required, missing[i]) < IndexOf(required, missing[j])
            /\ (ctx.current_intent = None
                  \/ ctx.current_intent \notin RegisteredIntents) => missing = <<>>

\* C1 witness: with two required slots, fill_slot of the first leaves the second
\* missing; the registry's order is visible when both are missing.
C1_Witness ==
    /\ registry = "two"
    /\ lastop.op = "fill_slot"
    /\ lastop.pre.missing_slots = <<"location", "datetime">>
    /\ heap[1].missing_slots = <<"datetime">>
    /\ "location" \in DOMAIN heap[1].collected_slots

\* the history a fresh session has after a first turn that was answered with
\* the location question
AskedForLocation(ctx) ==
    /\ Len(ctx.history) = 2
    /\ ctx.history[1].role = "user"
    /\ ctx.history[2] = Turn("assistant", "What city would you like the weather for?")
    /\ ctx.current_intent = "weather_query"
    /\ ctx.collected_slots = EmptyDict

\* C2 (Scenario A, tests/test_controller.py test_weather_two_turn_flow): on a
\* fresh session weather_query at confidence 0.95 without slots is answered
\* awaiting_info with needs_more_info and the city question; the next input of
\* the session, weather_query with a location slot, is answered completed with
\* ui_mode weather.
C2_ScenarioA ==
    \A c \in Calls :
        calls[c].pc = "done" =>
            /\ (/\ calls[c].pre = NewContext(calls[c].pre.last_updated)
                /\ calls[c].cls = Classified("weather_query", 95, <<>>))
               => /\ calls[c].resp.state = "awaiting_info"
                  /\ calls[c].resp.needs_more_info
                  /\ calls[c].resp.follow_up_question
                        = "What city would you like the weather for?"
            /\ (/\ AskedForLocation(calls[c].pre)
                /\ calls[c].cls = Classified("weather_query", 95,
                                             <<Pair("location", calls[c].text)>>))
               => /\ calls[c].resp.state = "completed"
                  /\ calls[c].resp.ui_mode = "weather"

\* C3 (Scenario B, tests/test_controller.py test_low_confidence_clarification):
\* a new turn whose classification has needs_clarification is answered
\* awaiting_info with needs_more_info, whatever slots are collected.
C3_ScenarioB ==
    \A c \in Calls :
        (/\ calls[c].pc = "done"
         /\ calls[c].path = "new"
         /\ calls[c].cls.needs_clarification)
        => /\ calls[c].resp.state = "awaiting_info"
           /\ calls[c].resp.needs_more_info

\* the last pair of slots whose key the alias table maps to name
LastWriter(slots, name) ==
    LET idx == {i \in DOMAIN slots :
                  (IF slots[i].key \in DOMAIN SLOT_ALIASES
                   THEN SLOT_ALIASES[slots[i].key] ELSE slots[i].key) = name}
    IN  IF idx = {} THEN 0 ELSE CHOOSE i \in idx : \A j \in idx : j <= i

\* what collected_slots holds when the merge loop of update starts
SlotsBeforeMerge ==
    IF Truthy(lastop.cls.intent) /\ ~is_context_answer(lastop.pre, lastop.text)
    THEN EmptyDict
    ELSE lastop.pre.collected_slots

\* the merge of update: every key of classification.slots is stored under its
\* alias (under itself when the table has none, never dropped), and a name
\* written several times, or collected before, keeps the value written last in
\* iteration order
AliasMerged(before, slots, after) ==
    /\ \A i \in DOMAIN slots :
          /\ slots[i].key \in DOMAIN SLOT_ALIASES
                => SLOT_ALIASES[slots[i].key] \in DOMAIN after
          /\ slots[i].key \notin DOMAIN SLOT_ALIASES
                => slots[i].key \in DOMAIN after
    /\ \A name \in DOMAIN after :
          IF LastWriter(slots, name) # 0
          THEN after[name] = slots[LastWriter(slots, name)].value
          ELSE name \in DOMAIN before /\ after[name] = before[name]
    /\ \A name \in DOMAIN before : name \in DOMAIN after

\* C4 as stated: update merges classification.slots through the alias table,
\* later writes winning, and place_name: Boston always ends up as
\* location: Boston with no place_name key in collected_slots.
C4_Original ==
    lastop.op = "update" =>
        /\ AliasMerged(SlotsBeforeMerge, lastop.cls.slots, heap[1].collected_slots)
        /\ lastop.cls.slots = <<Pair("place_name", "Boston")>>
              => /\ "location" \in DOMAIN heap[1].collected_slots
                 /\ heap[1].collected_slots["location"] = "Boston"
                 /\ "place_name" \notin DOMAIN heap[1].collected_slots

\* C4 amended: update merges classification.slots through the alias table,
\* later writes winning; place_name: Boston ends up as location: Boston, and
\* update writes no place_name key: one is present afterwards exactly when the
\* slots kept from before the merge already had it (fill_slot stores raw
\* names).
C4_AliasMerge ==
    lastop.op = "update" =>
        /\ AliasMerged(SlotsBeforeMerge, lastop.cls.slots, heap[1].collected_slots)
        /\ lastop.cls.slots = <<Pair("place_name", "Boston")>>
              => /\ "location" \in DOMAIN heap[1].collected_slots
                 /\ heap[1].collected_slots["location"] = "Boston"
                 /\ "place_name" \in DOMAIN heap[1].collected_slots
                       <=> "place_name" \in DOMAIN SlotsBeforeMerge

\* C4 witness: place_name written after location replaces the value under location.
C4_Witness ==
    /\ lastop.op = "update"
    /\ lastop.cls.slots = <<Pair("location", "New York"), Pair("place_name", "Boston")>>
    /\ heap[1].collected_slots = [location |-> "Boston"]

\* C5 (Scenario D): the collected slots of a session's context, and the slots
\* of the responses and handler calls of its turns, hold only values that
\* come from that session's own inputs, under every interleaving of the turns
\* of two sessions.
C5_SessionsIsolated ==
    /\ \A u \in Users :
          store[u] # 0 =>
              \A k \in DOMAIN heap[store[u]].collected_slots :
                  heap[store[u]].collected_slots[k] \in ValuesOf(u)
    /\ \A c \in Calls :
          calls[c].pc # "idle" =>
              /\ \A k \in DOMAIN calls[c].resp.slots :
                    calls[c].resp.slots[k] \in ValuesOf(calls[c].user)
              /\ \A k \in DOMAIN calls[c].slots :
                    calls[c].slots[k] \in ValuesOf(calls[c].user)
              /\ \A k \in DOMAIN heap[calls[c].ctx].collected_slots :
                    heap[calls[c].ctx].collected_slots[k] \in ValuesOf(calls[c].user)

\* C5 witness: two turns of different sessions are both suspended in a handler,
\* each with slots collected.
C5_Witness ==
    /\ calls[1].pc = "handling" /\ calls[2].pc = "handling"
    /\ calls[1].user # calls[2].user
    /\ calls[1].slots # EmptyDict /\ calls[2].slots # EmptyDict
    /\ heap[calls[1].ctx].collected_slots # EmptyDict
    /\ heap[calls[2].ctx].collected_slots # EmptyDict

\* a confident classification of an intent whose required list is empty,
\* handled as a new turn on a session that was idle
DirectTurn(c) ==
    /\ calls[c].path = "new"
    /\ IdleContext(calls[c].pre)
    /\ Truthy(calls[c].cls.intent)
    /\ ~calls[c].cls.needs_clarification
    /\ calls[c].cls.intent \in DOMAIN Registries[registry]
          => Registries[registry][calls[c].cls.intent] = <<>>

\* C6 as stated (Scenario E): such a turn is answered completed, with no
\* awaiting_info response and no follow-up question.
C6_Original ==
    \A c \in Calls :
        (calls[c].pc = "done" /\ DirectTurn(c))
        => /\ calls[c].resp.state = "completed"
           /\ ~calls[c].resp.needs_more_info
           /\ calls[c].resp.follow_up_question = None

\* C6 amended: such a turn goes to its category handler on that same turn and
\* is never answered awaiting_info or with a follow-up question; the response is
\* completed when the handler returns and error when it raises.
C6_DirectDispatch ==
    \A c \in Calls :
        DirectTurn(c) =>
            /\ calls[c].pc \in {"handling", "done"}
            /\ calls[c].category = CategoryOf(calls[c].cls.intent)
            /\ calls[c].pc = "done" =>
                  /\ calls[c].resp.state
                        = (IF calls[c].handler = "raise" THEN "error" ELSE "completed")
                  /\ ~calls[c].resp.needs_more_info
                  /\ calls[c].resp.follow_up_question = None

\* C6 witness: play_music on an idle session, completed on that turn.
C6_Witness ==
    \E c \in Calls :
        /\ calls[c].pc = "done" /\ DirectTurn(c)
        /\ calls[c].cls.intent = "play_music"
        /\ calls[c].resp.state = "completed"

\* C7: when the service a handler awaits raises, the turn is answered with
\* state error and the fixed apology, and the context is not reset:
\* current_intent and collected_slots are as they were when the handler was
\* invoked.
C7_ErrorKeepsSession ==
    \A c \in Calls :
        (calls[c].pc = "done" /\ calls[c].handler = "raise")
        => /\ calls[c].resp.state = "error"
           /\ calls[c].resp.response
                 = "I'm sorry, I encountered an error. Please try again."
           /\ heap[calls[c].ctx].current_intent = calls[c].intent
           /\ heap[calls[c].ctx].collected_slots = calls[c].slots

\* C7 witness: a handler raised with an intent pending and a slot collected.
C7_Witness ==
    \E c \in Calls :
        /\ calls[c].pc = "done" /\ calls[c].handler = "raise"
        /\ heap[calls[c].ctx].current_intent = "weather_query"
        /\ heap[calls[c].ctx].collected_slots # EmptyDict

\* C8: no exception leaves process_input, whatever the session state, the
\* input, the classifier's answer or failure and the handler's outcome; every
\* response has state awaiting_info, completed or error.
C8_NeverRaises ==
    \A c \in Calls :
        /\ calls[c].pc # "raised"
        /\ calls[c].pc = "done"
              => calls[c].resp.state \in {"awaiting_info", "completed", "error"}

\* C8 witness: a turn whose handler raised has been answered.
C8_Witness ==
    \E c \in Calls :
        /\ calls[c].pc = "done"
        /\ calls[c].handler = "raise"
        /\ calls[c].resp.state = "error"

\* C9: classify returns for every way the request ends; on a timeout, an HTTP
\* status error or any other exception the result has intent null, confidence
\* 0.0, no slots and needs_clarification true.
C9_ClassifyDegrades ==
    lastop.op = "classify" =>
        /\ lastop.ret = "returned"
        /\ lastop.name # "ok" =>
              lastop.cls = [intent |-> None, confidence |-> 0, slots |-> <<>>,
                            needs_clarification |-> TRUE]

\* C9 witness: classify was called and the request ended in an exception that
\* is neither a timeout nor an HTTP status error.
C9_Witness ==
    /\ lastop.op = "classify"
    /\ lastop.name = "exception"
    /\ lastop.ret = "returned"

\* a turn whose classification is the degraded result
DegradedTurn(c) ==
    /\ calls[c].pc = "done"
    /\ calls[c].cls.intent = None
    /\ calls[c].cls.confidence = 0

\* the General handler was called with the turn's text and its reply was
\* returned as a completed response
GeneralReply(c) ==
    /\ calls[c].path = "new"
    /\ calls[c].category = "General"
    /\ calls[c].message = calls[c].text
    /\ calls[c].resp.state = "completed"
    /\ calls[c].resp.response = ReplyText("General")

\* C10 as stated: in every session state, also with a slot question pending, a
\* degraded turn goes to the General handler with the raw message and is
\* answered with its reply: no error, no slot filled.
C10_Original == \A c \in Calls : DegradedTurn(c) => GeneralReply(c)

\* C10 amended: when no slot question is pending (awaiting_slot unset) a
\* degraded turn goes to the General handler with the raw message and is
\* answered completed with its reply, no slot being filled; when a question is
\* pending the turn is taken as the answer and the raw text fills the awaited
\* slot.
C10_DegradedRouting ==
    \A c \in Calls :
        DegradedTurn(c) =>
            IF calls[c].pre.awaiting_slot = None
            THEN /\ GeneralReply(c)
                 /\ calls[c].slots = calls[c].pre.collected_slots
            ELSE /\ calls[c].path = "slot"
                 /\ calls[c].pre.awaiting_slot \in DOMAIN calls[c].slots
                 /\ calls[c].slots[calls[c].pre.awaiting_slot] = calls[c].text

\* C10 witness: a degraded turn on a session that still has the intent of a
\* failed turn pending is answered by the General handler.
C10_Witness ==
    \E c \in Calls :
        /\ DegradedTurn(c)
        /\ calls[c].pre.current_intent = "weather_query"
        /\ calls[c].pre.awaiting_slot = None
        /\ GeneralReply(c)

\* a turn handled as a new turn whose classification asks for clarification or
\* has no intent
ClarifyingTurn(c) ==
    /\ calls[c].pc \in {"handling", "done"}
    /\ calls[c].path = "new"
    /\ calls[c].cls.needs_clarification \/ calls[c].cls.intent = None

\* C11: on a turn that is not a slot answer, a classification with
\* needs_clarification or without intent sends the turn to the General handler
\* with the last user message (the turn's text) and the history that ends with
\* it; the handler's reply is appended as an assistant Turn, the context is
\* reset, and the response is completed with that reply as its text.
C11_Clarifying ==
    \A c \in Calls :
        ClarifyingTurn(c) =>
            /\ calls[c].category = "General"
            /\ calls[c].message = calls[c].text
            /\ calls[c].pc = "handling" =>
                  heap[calls[c].ctx].history
                     = Append(calls[c].pre.history, Turn("user", calls[c].text))
            /\ calls[c].pc = "done" =>
                  /\ calls[c].resp.state = "completed"
                  /\ calls[c].resp.response = "Hey there! I'm VCNI."
                  /\ heap[calls[c].ctx].history
                        = calls[c].pre.history
                             \o <<Turn("user", calls[c].text),
                                  Turn("assistant", calls[c].resp.response)>>
                  /\ IdleContext(heap[calls[c].ctx])

\* C11 witness: a low-confidence play_music turn has been answered by the
\* General handler.
C11_Witness ==
    \E c \in Calls :
        /\ ClarifyingTurn(c) /\ calls[c].pc = "done"
        /\ calls[c].cls.intent = "play_music"
        /\ calls[c].cls.needs_clarification
        /\ calls[c].resp.state = "completed"

\* C12: every intent has a category and a ui mode: weather_query is Weather /
\* weather, the four play_* intents Music / music, the nine iot_* intents IoT /
\* smart_home, and null, the general_* intents and every unregistered intent
\* General / ai_response, never an error; INTENT_TO_UI_MODE has exactly the
\* registered intents as keys and agrees with get_ui_mode on each.
C12_MappingTotal ==
    /\ DOMAIN INTENT_TO_UI_MODE = RegisteredIntents
    /\ lastop.op = "get_ui_mode" =>
          LET intent == lastop.name
              expected ==
                  CASE intent = "weather_query" -> <<"Weather", "weather">>
                    [] intent \in {"play_music", "play_radio", "play_podcasts",
                                   "play_audiobook"} -> <<"Music", "music">>
                    [] intent \in {"iot_hue_lighton", "iot_hue_lightoff",
                                   "iot_hue_lightchange", "iot_hue_lightup",
                                   "iot_hue_lightdim", "iot_wemo_on", "iot_wemo_off",
                                   "iot_coffee", "iot_cleaning"} -> <<"IoT", "smart_home">>
                    [] OTHER -> <<"General", "ai_response">>
          IN  /\ lastop.value = expected[1]
              /\ lastop.ret = expected[2]
              /\ intent \in RegisteredIntents => INTENT_TO_UI_MODE[intent] = lastop.ret

\* C12 witness: an intent the assistant does not register was mapped to General
\* and ai_response.
C12_Witness ==
    /\ lastop.op = "get_ui_mode"
    /\ lastop.name = "play_game"
    /\ lastop.value = "General"
    /\ lastop.ret = "ai_response"

\* a turn that reached _execute_intent: the slot-filling path with nothing
\* missing, or a new turn with an intent, no clarification and nothing missing
DispatchedTurn(c) ==
    /\ calls[c].pc \in {"handling", "done"}
    /\ \/ calls[c].path = "slot"
       \/ /\ calls[c].path = "new"
          /\ ~calls[c].cls.needs_clarification
          /\ calls[c].cls.intent # None

\* the ui mode of a handler category
ModeOfCategory(category) ==
    CASE category = "Weather" -> "weather"
      [] category = "Music" -> "music"
      [] category = "IoT" -> "smart_home"
      [] OTHER -> "ai_response"

\* C13: a turn that reaches dispatch with nothing missing invokes the handler
\* of the category of current_intent, the category get_ui_mode assigns to it;
\* when the handler succeeds its response text is appended as an assistant
\* Turn, current_intent, collected_slots, missing_slots and awaiting_slot are
\* cleared, and the response is completed with the handler's text and ui mode.
C13_Dispatch ==
    \A c \in Calls :
        DispatchedTurn(c) =>
            /\ ModeOfCategory(calls[c].category) = get_ui_mode(calls[c].intent)
            /\ calls[c].category = "Weather" <=> calls[c].intent = "weather_query"
            /\ calls[c].pc = "handling" =>
                  /\ heap[calls[c].ctx].current_intent = calls[c].intent
                  /\ heap[calls[c].ctx].missing_slots = <<>>
            /\ (calls[c].pc = "done" /\ calls[c].handler = "ok") =>
                  /\ calls[c].resp.state = "completed"
                  /\ calls[c].resp.response = ReplyText(calls[c].category)
                  /\ calls[c].resp.ui_mode \in HandlerUiModes(calls[c].category)
                  /\ Len(heap[calls[c].ctx].history) > 0
                  /\ heap[calls[c].ctx].history[Len(heap[calls[c].ctx].history)]
                        = Turn("assistant", calls[c].resp.response)
                  /\ IdleContext(heap[calls[c].ctx])

\* C13 witness: a weather turn dispatched from the slot-filling path, with the
\* location collected, was answered by the Weather handler.
C13_Witness ==
    \E c \in Calls :
        /\ DispatchedTurn(c) /\ calls[c].pc = "done" /\ calls[c].handler = "ok"
        /\ calls[c].path = "slot"
        /\ calls[c].category = "Weather"
        /\ "location" \in DOMAIN calls[c].slots
        /\ calls[c].resp.ui_mode = "weather"

\* a new-intent turn with an intent and no clarification flag that has returned
NewIntentTurn(c) ==
    /\ calls[c].pc = "done"
    /\ calls[c].path = "new"
    /\ calls[c].cls.intent # None
    /\ ~calls[c].cls.needs_clarification

\* the required slots of a turn's intent that its classification did not
\* deliver, under their canonical names and in the registry's order
Undelivered(c) ==
    SelectSeq(Registries[registry][calls[c].cls.intent],
              LAMBDA slot : LastWriter(calls[c].cls.slots, slot) = 0)

\* C14: a new-intent turn with an intent and no clarification flag whose
\* context is incomplete after update is answered awaiting_info with
\* needs_more_info, follow_up_question the prompt of the first missing required
\* slot in the registry's order; awaiting_slot is that slot and the question is
\* the last Turn of the history, by the assistant.
C14_SlotRequest ==
    \A c \in Calls :
        (/\ NewIntentTurn(c)
         /\ calls[c].cls.intent \in RegisteredIntents
         /\ Undelivered(c) # <<>>)
        => LET slot == Undelivered(c)[1]
               ctx == heap[calls[c].ctx]
           IN  /\ calls[c].resp.state = "awaiting_info"
               /\ calls[c].resp.needs_more_info
               /\ calls[c].resp.follow_up_question = SLOT_QUESTIONS[slot]
               /\ calls[c].resp.response = SLOT_QUESTIONS[slot]
               /\ ctx.awaiting_slot = slot
               /\ ctx.missing_slots = Undelivered(c)
               /\ ctx.history[Len(ctx.history)] = Turn("assistant", SLOT_QUESTIONS[slot])
               /\ slot = "location" =>
                     calls[c].resp.follow_up_question
                        = "What city would you like the weather for?"

\* C14 witness: with location and datetime required and neither given, the
\* turn asked for the location, the first of the two.
C14_Witness ==
    \E c \in Calls :
        /\ NewIntentTurn(c)
        /\ registry = "two"
        /\ heap[calls[c].ctx].missing_slots = <<"location", "datetime">>
        /\ heap[calls[c].ctx].awaiting_slot = "location"
        /\ calls[c].resp.state = "awaiting_info"

\* a process_input call that has fetched its context and has not returned
InFlight(c) == calls[c].pc \in {"classifying", "handling"}

\* the step calls this method of the context manager
ManagerCall(op) == lastop'.op = op /\ calls' = calls /\ now' = now

\* C15: a call of cleanup_old_contexts never removes a session for which a
\* process_input call is in flight, so the context a turn mutates stays the one
\* the store holds for the session.
C15_SweepSparesInFlight ==
    [][\A c \in Calls :
          (/\ InFlight(c)
           /\ store[calls[c].user] = calls[c].ctx
           /\ ManagerCall("cleanup_old_contexts"))
          => store'[calls[c].user] = calls[c].ctx]_vars

\* the contexts and responses a turn with this text and classification can end
\* with when it runs from context ctx with no other call of the session
\* running, for every way its handler can end
TurnResults(ctx, text, classification) ==
    LET s == after_classify(ctx, text, classification, now)
    IN  IF ~s.awaits
        THEN {[ctx |-> s.ctx, resp |-> s.resp]}
        ELSE {[ctx |-> h.ctx, resp |-> h.resp] :
                h \in {handler_completes(s, s.ctx, m) : m \in HandlerUiModes(s.category)}
                      \cup {handler_raises(s, s.ctx) :
                               o \in HandlerOutcomes(s.category, s.slots) \ {"ok"}}}

\* C16: two process_input calls for the same session never interleave their
\* changes of its context: when both have returned, the context and the two
\* responses are those of running the two turns one after the other, in one
\* of the two orders.
C16_Serializable ==
    (/\ started = 2
     /\ \A c \in Calls : calls[c].pc = "done" /\ calls[c].user = OverlapUser)
    => \E a, b \in Calls :
          /\ a # b
          /\ \E r1 \in TurnResults(NewContext(0), calls[a].text, calls[a].cls) :
                /\ r1.resp = calls[a].resp
                /\ \E r2 \in TurnResults(r1.ctx, calls[b].text, calls[b].cls) :
                      /\ r2.resp = calls[b].resp
                      /\ r2.ctx = heap[store[OverlapUser]]

\* C17: after a process_input call was abandoned at its classifier await or
\* its handler await, the session's context is exactly what it was before the
\* call or exactly what a completed turn leaves: nothing of the abandoned input
\* (user Turn, intent, merged slots) stays without the assistant Turn and the
\* reset, and awaiting_slot does not name a slot that is in collected_slots.
C17_AbandonAtomic ==
    \A c \in Calls :
        calls[c].pc = "abandoned" =>
            LET ctx == heap[calls[c].ctx]
            IN  /\ \/ ctx = calls[c].pre
                   \/ \E r \in TurnResults(calls[c].pre, calls[c].text, calls[c].cls) :
                         ctx = r.ctx
                /\ ctx.awaiting_slot # None
                      => ctx.awaiting_slot \notin DOMAIN ctx.collected_slots

\* the step is the start of a process_input call for session u: get_context(u)
GetContextStep(u) ==
    \E c \in Calls :
        /\ calls[c].pc # "classifying"
        /\ calls'[c].pc = "classifying"
        /\ calls'[c].user = u

\* C18: the stored session ids change only by get_context adding an absent
\* id, remove_context removing its argument and cleanup_old_contexts removing
\* stale ids; reset_context and the turns of other sessions add and remove
\* nothing; reset_context and remove_context on an unknown id change nothing;
\* the get_context that follows a removal constructs a new, empty context.
C18_StoreFrame ==
    [][/\ \A u \in Users :
             store'[u] # store[u] =>
                \/ /\ store[u] = 0
                   /\ GetContextStep(u)
                   /\ store'[u] = nobjs + 1
                   /\ heap'[store'[u]] = NewContext(now)
                \/ /\ store'[u] = 0
                   /\ ManagerCall("remove_context")
                   /\ lastop'.name = u
                \/ /\ store'[u] = 0
                   /\ ManagerCall("cleanup_old_contexts")
                   /\ now - heap[store[u]].last_updated > lastop'.value
       /\ ManagerCall("reset_context") => store' = store
       /\ \A u \in Users :
             (/\ ManagerCall("reset_context") \/ ManagerCall("remove_context")
              /\ lastop'.name = u
              /\ store[u] = 0)
             => store' = store /\ heap' = heap
      ]_vars

\* C18 witness: a session was removed by remove_context and the next turn of
\* the same session id has a second, empty context.
C18_Witness ==
    /\ lastop.op = "remove_context"
    /\ lastop.name = "u1"
    /\ store["u1"] = 2
    /\ calls[1].pc = "classifying"
    /\ heap[1].history # <<>>
    /\ heap[2].history = <<>>

\* C19: the first get_context for a session id constructs an empty context and
\* stores it; every later get_context returns that same object, changing
\* nothing, for as long as the id is stored, so what a turn wrote is what the
\* next turn reads.
C19_SameContext ==
    [][/\ \A u \in Users :
             GetContextStep(u) =>
                \A c \in Calls :
                    (calls'[c].pc = "classifying" /\ calls[c].pc # "classifying") =>
                        /\ calls'[c].ctx = store'[u]
                        /\ store[u] # 0 => store'[u] = store[u] /\ heap' = heap
                        /\ store[u] = 0 => /\ store'[u] = nobjs + 1
                                           /\ heap'[store'[u]] = NewContext(now)
       /\ \A u \in Users :
             (store[u] # 0 /\ store'[u] # 0) => store'[u] = store[u]
      ]_vars

\* C19 witness: a second turn of a session has fetched the context its first
\* turn wrote.
C19_Witness ==
    \E c \in Calls :
        /\ calls[c].pc = "classifying"
        /\ store[calls[c].user] = calls[c].ctx
        /\ Len(heap[calls[c].ctx].history) = 2
        /\ started = 2

\* C20: cleanup_old_contexts(max_age) removes exactly the sessions whose
\* last_updated is more than max_age seconds before now, leaves every other
\* session and every context as it is, and returns how many it removed.
C20_Cleanup ==
    [][ManagerCall("cleanup_old_contexts") =>
          /\ \A u \in Users :
                store'[u] =
                   IF store[u] # 0 /\ now - heap[store[u]].last_updated > lastop'.value
                   THEN 0 ELSE store[u]
          /\ heap' = heap
          /\ lastop'.ret = Cardinality({u \in Users : store[u] # 0 /\ store'[u] = 0})
      ]_vars

\* C20 witness: a sweep with the default age at 1801 s removed the session last
\* updated at 0 and kept the one last updated at 1800.
C20_Witness ==
    /\ lastop.op = "cleanup_old_contexts"
    /\ lastop.value = 1800
    /\ lastop.ret = 1
    /\ now = 1801
    /\ \E u, v \in Users :
          /\ store[u] = 0
          /\ store[v] # 0
          /\ heap[store[v]].last_updated = 1800

--------------------------------------------------------------------------
(* C21: reset clears current_intent, collected_slots, missing_slots and
   awaiting_slot and leaves the history as it was, in length and in
   contents; clear_all empties the history and leaves the same four fields
   cleared. *)
C21_ResetFrame ==
    /\ lastop.op = "reset" =>
         /\ IdleContext(heap[1])
         /\ heap[1].history = lastop.pre.history
    /\ lastop.op = "clear_all" =>
         /\ IdleContext(heap[1])
         /\ heap[1].history = <<>>

\* reset has acted on a context with a history, an intent, a collected slot,
\* a missing slot and a pending question
C21_Witness ==
    /\ lastop.op = "reset"
    /\ Len(lastop.pre.history) = MaxHistory
    /\ Truthy(lastop.pre.current_intent)
    /\ DOMAIN lastop.pre.collected_slots # {}
    /\ lastop.pre.missing_slots # <<>>
    /\ Truthy(lastop.pre.awaiting_slot)
    /\ heap[1].history = lastop.pre.history

--------------------------------------------------------------------------
\* seq `a` is an initial part of seq `b`
IsPrefix(a, b) ==
    /\ Len(a) <= Len(b)
    /\ \A i \in DOMAIN a : b[i] = a[i]

(* C22: no step other than a clear_all call shortens the history of a
   context or changes a Turn already appended to it: the history before the
   step is an initial part of the history after it.  This covers every
   ConversationContext method and every step of a process_input turn. *)
C22_HistoryGrows ==
    [][\A o \in Objs :
          lastop'.op # "clear_all" => IsPrefix(heap[o].history, heap'[o].history)
      ]_vars

\* an assistant Turn has been appended behind a user Turn, and the user Turn
\* is still the first of the history
C22_Witness ==
    /\ lastop.op = "add_assistant_turn"
    /\ Len(lastop.pre.history) = 1
    /\ lastop.pre.history[1].role = "user"
    /\ Len(heap[1].history) = 2
    /\ heap[1].history[1] = lastop.pre.history[1]

--------------------------------------------------------------------------
\* update has just been called on a fresh context with this classification
FreshUpdate(cls) ==
    /\ lastop.op = "update"
    /\ lastop.pre = NewContext(lastop.pre.last_updated)
    /\ lastop.cls = cls

(* C23 (tests/test_context.py test_get_missing_slots,
   test_is_complete_when_slots_missing, test_get_next_question,
   test_is_complete_when_all_slots_filled): after update on a fresh context
   with weather_query and no slots, "location" is in missing_slots,
   is_complete() is false, get_next_question() returns the question about the
   city and sets awaiting_slot to "location"; after update with a location
   slot is_complete() is true. *)
C23_FreshWeather ==
    /\ FreshUpdate(Classified("weather_query", 95, <<>>)) =>
         /\ "location" \in Range(heap[1].missing_slots)
         /\ ~is_complete(heap[1])
         /\ get_next_question(heap[1]) = "What city would you like the weather for?"
         /\ get_next_question_ctx(heap[1]).awaiting_slot = "location"
    /\ FreshUpdate(Classified("weather_query", 95,
                              <<Pair("location", ShortText("u1"))>>)) =>
         is_complete(heap[1])

--------------------------------------------------------------------------
\* the history a fresh session has after a first turn that was answered with
\* the device question
AskedForDevice(ctx) ==
    /\ Len(ctx.history) = 2
    /\ ctx.history[1].role = "user"
    /\ ctx.history[2] = Turn("assistant", SlotQuestion("device_name"))
    /\ ctx.current_intent = "iot_hue_lighton"
    /\ ctx.collected_slots = EmptyDict

(* C24 (tests/test_controller.py test_iot_light_flow): on a fresh session
   iot_hue_lighton at confidence 0.92 without slots is answered awaiting_info
   with needs_more_info and a follow-up question; the next input of the
   session, classified iot_hue_lighton with a device_name slot, is answered
   completed with ui_mode smart_home. *)
C24_IotLightFlow ==
    \A c \in Calls :
        calls[c].pc = "done" =>
            /\ (/\ calls[c].pre = NewContext(calls[c].pre.last_updated)
                /\ calls[c].cls = Classified("iot_hue_lighton", 92, <<>>))
               => /\ calls[c].resp.state = "awaiting_info"
                  /\ calls[c].resp.needs_more_info
                  /\ calls[c].resp.follow_up_question # None
            /\ (/\ AskedForDevice(calls[c].pre)
                /\ calls[c].cls = Classified("iot_hue_lighton", 92,
                                     <<Pair("device_name", ShortText(calls[c].user))>>))
               => /\ calls[c].resp.state = "completed"
                  /\ calls[c].resp.ui_mode = "smart_home"

--------------------------------------------------------------------------
\* a turn that took the slot-filling branch and whose synchronous stretch is over
SlotAnswerTurn(c) ==
    /\ calls[c].pc \in {"handling", "done"}
    /\ calls[c].path = "slot"

\* collected_slots as a slot answer is to leave them: the awaited slot holds the
\* classification's value for it, or the text; every name collected before
\* keeps its value; every other extracted name holds its extracted value
SlotAnswer(pre, text, cls) ==
    [k \in DOMAIN pre.collected_slots \cup SlotKeys(cls.slots) \cup {pre.awaiting_slot} |->
        IF k = pre.awaiting_slot
        THEN (IF k \in SlotKeys(cls.slots) THEN SlotsDict(cls.slots)[k] ELSE text)
        ELSE IF k \in DOMAIN pre.collected_slots
        THEN pre.collected_slots[k]
        ELSE SlotsDict(cls.slots)[k]]

(* C25: on a slot-answer turn the awaited slot is filled with
   classification.slots[awaiting_slot] when that key is present and with the
   raw input text otherwise; every other classification slot is added only
   if its name is not yet a key of collected_slots, so no value collected
   earlier is overwritten; if a required slot is still missing the next
   question is asked and the state is awaiting_info, else the intent is
   dispatched to its handler. *)
C25_SlotAnswer ==
    \A c \in Calls :
        SlotAnswerTurn(c) =>
            LET pre == calls[c].pre
                filled == SlotAnswer(pre, calls[c].text, calls[c].cls)
                missing == SelectSeq(RequiredSlots(pre.current_intent),
                                     LAMBDA s : s \notin DOMAIN filled)
            IN  IF missing # <<>>
                THEN /\ calls[c].pc = "done"
                     /\ calls[c].resp.state = "awaiting_info"
                     /\ calls[c].resp.needs_more_info
                     /\ calls[c].resp.follow_up_question = SlotQuestion(missing[1])
                     /\ calls[c].resp.slots = filled
                     /\ heap[calls[c].ctx].collected_slots = filled
                     /\ heap[calls[c].ctx].awaiting_slot = missing[1]
                ELSE /\ calls[c].category = CategoryOf(pre.current_intent)
                     /\ calls[c].intent = pre.current_intent
                     /\ calls[c].slots = filled
                     /\ calls[c].resp.state # "awaiting_info"

\* the answer to the second question carried a new value for the slot
\* collected on the turn before: the awaited slot took the text, the earlier
\* value stayed, and the intent was dispatched
C25_Witness ==
    \E c \in Calls :
        /\ SlotAnswerTurn(c)
        /\ calls[c].pc = "handling"
        /\ calls[c].pre.awaiting_slot = "datetime"
        /\ calls[c].pre.collected_slots = [k \in {"location"} |-> ShortText(calls[c].user)]
        /\ calls[c].cls.slots = <<Pair("location", OtherValue(calls[c].user))>>
        /\ calls[c].slots = [k \in {"location", "datetime"} |->
                               IF k = "location" THEN ShortText(calls[c].user)
                               ELSE calls[c].text]

--------------------------------------------------------------------------
(* C26: is_context_answer(text) is true exactly when awaiting_slot and
   current_intent are both set, or missing_slots is non-empty and the text
   has at most five whitespace-separated tokens; it is false otherwise, and
   the call changes no field of the context. *)
C26_IsContextAnswer ==
    lastop.op = "is_context_answer" =>
        /\ lastop.ret =
             (\/ lastop.pre.awaiting_slot # None /\ lastop.pre.current_intent # None
              \/ lastop.pre.missing_slots # <<>> /\ TokenCount(lastop.text) <= 5)
        /\ heap[1] = lastop.pre

\* a five-token text was judged an answer on the strength of its length
\* alone: a slot is missing and no question is pending
C26_Witness ==
    /\ lastop.op = "is_context_answer"
    /\ lastop.pre.awaiting_slot = None
    /\ lastop.pre.missing_slots # <<>>
    /\ TokenCount(lastop.text) = 5
    /\ lastop.ret = TRUE

--------------------------------------------------------------------------
\* the step is a call update(text, cls) of the context's method
UpdateStep == lastop'.op = "update" /\ now' = now

\* what update is to leave of a context: one more user Turn, last_updated
\* refreshed, and either the new intent with only the slots of this
\* classification, or the old intent with the new slots merged onto the old
Updated(pre, post, text, cls, t, fresh) ==
    /\ post.history = Append(pre.history, Turn("user", text))
    /\ post.last_updated = t
    /\ IF fresh
       THEN /\ post.current_intent = cls.intent
            /\ post.collected_slots = MergeSlots(EmptyDict, cls.slots)
       ELSE /\ post.current_intent = pre.current_intent
            /\ post.collected_slots = MergeSlots(pre.collected_slots, cls.slots)

(* C27 as stated: update appends exactly one user Turn and refreshes
   last_updated; if the classification's intent is non-null and the input is
   not a context answer, judged on the state before the update, it sets
   current_intent and discards the slots collected before, then merges;
   otherwise it keeps the intent and the slots and merges the new slots onto
   them. *)
C27_Original ==
    [][UpdateStep =>
          Updated(heap[1], heap'[1], lastop'.text, lastop'.cls, now,
                  /\ lastop'.cls.intent # None
                  /\ ~is_context_answer(heap[1], lastop'.text))
      ]_vars

(* C27 amended: the same, with the intent taken as new when it is neither
   null nor the empty string: `if classification.intent and ...` tests the
   truth value of the string. *)
C27_Update ==
    [][UpdateStep =>
          Updated(heap[1], heap'[1], lastop'.text, lastop'.cls, now,
                  /\ lastop'.cls.intent # None
                  /\ lastop'.cls.intent # ""
                  /\ ~is_context_answer(heap[1], lastop'.text))
      ]_vars

\* update has replaced an intent and its collected slot by a new intent with
\* the slot of the new classification only, at a later instant
C27_Witness ==
    /\ lastop.op = "update"
    /\ lastop.pre.current_intent = "weather_query"
    /\ "location" \in DOMAIN lastop.pre.collected_slots
    /\ lastop.pre.collected_slots["location"] = ShortText("u1")
    /\ lastop.cls.intent = "play_music"
    /\ heap[1].current_intent = "play_music"
    /\ heap[1].collected_slots = [k \in {"location"} |-> OtherValue("u1")]
    /\ heap[1].last_updated > lastop.pre.last_updated
    /\ Len(heap[1].history) = Len(lastop.pre.history) + 1

--------------------------------------------------------------------------
\* a step by a method outside `mutators` leaves the answer of
\* get_next_question as it was
QuestionStable(mutators) ==
    lastop'.op \notin mutators =>
        get_next_question(heap'[1]) = get_next_question(heap[1])

\* what one call of get_next_question does, and what a call right after
\* another one does
QuestionAsked ==
    /\ lastop'.op = "get_next_question" =>
         LET missing == SelectSeq(RequiredSlots(heap[1].current_intent),
                                  LAMBDA s : s \notin DOMAIN heap[1].collected_slots)
         IN  /\ heap'[1].missing_slots = heap[1].missing_slots
             /\ heap'[1].collected_slots = heap[1].collected_slots
             /\ heap'[1].history = heap[1].history
             /\ IF heap[1].missing_slots = <<>>
                THEN /\ lastop'.ret = None
                     /\ heap'[1] = heap[1]
                ELSE /\ lastop'.ret = SlotQuestion(missing[1])
                     /\ heap'[1].awaiting_slot = missing[1]
    /\ (lastop.op = "get_next_question" /\ lastop'.op = "get_next_question") =>
         /\ lastop'.ret = lastop.ret
         /\ heap'[1] = heap[1]

(* C28 as stated: get_next_question is idempotent: repeated calls with no
   fill_slot or update in between return the same question, for the first
   missing slot in schema order, leave awaiting_slot on that slot and change
   neither missing_slots, collected_slots nor history; it returns null when
   missing_slots is empty. *)
C28_Original ==
    [][QuestionAsked /\ QuestionStable({"fill_slot", "update"})]_vars

(* C28 amended: the same for repeated calls with no fill_slot, update, reset
   or clear_all in between. *)
C28_Idempotent ==
    [][QuestionAsked
       /\ QuestionStable({"fill_slot", "update", "reset", "clear_all"})]_vars

\* get_next_question was called on a context it had already set to await the
\* first of two missing slots, and asked for that slot again
C28_Witness ==
    /\ lastop.op = "get_next_question"
    /\ lastop.pre.missing_slots = <<"location", "datetime">>
    /\ lastop.pre.awaiting_slot = "location"
    /\ lastop.ret = SlotQuestion("location")
    /\ heap[1] = lastop.pre

--------------------------------------------------------------------------
\* fill_slot(name, ...) has just been called
Filled(name) == lastop.op = "fill_slot" /\ lastop.name = name

\* get_next_question has just been called and asked for slot name
Selected(name) ==
    /\ lastop.op = "get_next_question"
    /\ lastop.pre.missing_slots # <<>>
    /\ lastop.pre.missing_slots[1] = name

\* the context right after fill_slot(name, v): the value is collected, the
\* name is not missing and not awaited, a pending question for another slot
\* is still pending, a get_next_question called now does not ask for the
\* name, and the context is complete if the name was the only one missing
FillSlotPost ==
    lastop.op = "fill_slot" =>
        /\ lastop.name \in DOMAIN heap[1].collected_slots
        /\ heap[1].collected_slots[lastop.name] = lastop.value
        /\ lastop.name \notin Range(heap[1].missing_slots)
        /\ heap[1].awaiting_slot =
             (IF lastop.pre.awaiting_slot = lastop.name
              THEN None ELSE lastop.pre.awaiting_slot)
        /\ get_next_question_ctx(heap[1]).awaiting_slot # lastop.name
        /\ Range(lastop.pre.missing_slots) \subseteq {lastop.name}
             => is_complete(heap[1])

\* a name that fill_slot has put in collected_slots is not the slot
\* get_next_question would ask for after the next call of any method
StaysFilled(name) ==
    name \in DOMAIN heap[1].collected_slots =>
        ~(/\ heap'[1].missing_slots # <<>>
          /\ heap'[1].missing_slots[1] = name)

(* C29 as stated: after fill_slot(name, v), collected_slots[name] = v, name
   is not in missing_slots and awaiting_slot is not name (cleared if it was
   name, unchanged otherwise); no later get_next_question can select name
   again, whatever is called in between; filling the last missing required
   slot makes is_complete() true. *)
C29_Original ==
    [][FillSlotPost' /\ \A name \in FillNames : StaysFilled(name)]_vars

(* C29 amended: the same, with get_next_question never selecting a name
   while it is a key of collected_slots: the name can be asked for again
   once an update for a new intent, reset or clear_all has discarded the
   collected slots. *)
C29_FillSlot ==
    /\ FillSlotPost
    /\ \A name \in FillNames :
          Selected(name) => name \notin DOMAIN heap[1].collected_slots

\* fill_slot answered the pending question for the first of two missing
\* slots: the question is cleared and the second slot is the one missing
C29_Witness ==
    /\ Filled("location")
    /\ lastop.pre.awaiting_slot = "location"
    /\ lastop.pre.missing_slots = <<"location", "datetime">>
    /\ heap[1].awaiting_slot = None
    /\ heap[1].missing_slots = <<"datetime">>
    /\ heap[1].collected_slots["location"] = OtherValue("u1")

--------------------------------------------------------------------------
\* the session's process_input has returned and no other is running on it
AtTurnBoundary(c) == calls[c].pc \in {"done", "raised"}

(* C30: at every turn boundary of a session driven by process_input alone:
   whenever awaiting_slot is set, current_intent is set, missing_slots is
   non-empty with awaiting_slot as its first element, and awaiting_slot is
   not a key of collected_slots; whenever the last response was completed,
   current_intent, collected_slots, missing_slots and awaiting_slot are all
   cleared. *)
C30_TurnBoundary ==
    \A c \in Calls :
        AtTurnBoundary(c) =>
            LET ctx == heap[calls[c].ctx]
            IN  /\ ctx.awaiting_slot # None =>
                     /\ ctx.current_intent # None
                     /\ ctx.missing_slots # <<>>
                     /\ ctx.missing_slots[1] = ctx.awaiting_slot
                     /\ ctx.awaiting_slot \notin DOMAIN ctx.collected_slots
                /\ calls[c].resp.state = "completed" => IdleContext(ctx)

\* a slot answer was followed by the question for the second slot: at the
\* boundary the session awaits datetime with location collected
C30_Witness ==
    \E c \in Calls :
        /\ AtTurnBoundary(c)
        /\ calls[c].path = "slot"
        /\ calls[c].resp.state = "awaiting_info"
        /\ heap[calls[c].ctx].awaiting_slot = "datetime"
        /\ heap[calls[c].ctx].missing_slots = <<"datetime">>
        /\ DOMAIN heap[calls[c].ctx].collected_slots = {"location"}

--------------------------------------------------------------------------
\* the classifier's answer has arrived and process_input has run on from it
ClassifiedStep(c) ==
    /\ calls[c].pc = "classifying"
    /\ calls'[c].pc \in {"handling", "done"}

\* a context with an intent and no pending question: what an error response
\* leaves behind
PendingIntent(ctx) ==
    /\ ctx.current_intent # None
    /\ ctx.awaiting_slot = None

\* a session is left with an intent and no question exactly by an error
\* response, and the next classified input whose intent satisfies `fresh`
\* replaces the intent and the slots, whatever the text
Retried(c, fresh) ==
    /\ calls'[c].pc = "done" =>
         (PendingIntent(heap'[calls'[c].ctx]) <=> calls'[c].resp.state = "error")
    /\ (ClassifiedStep(c) /\ PendingIntent(heap[calls[c].ctx]) /\ fresh) =>
         /\ calls'[c].path = "new"
         /\ heap'[calls[c].ctx].current_intent = calls'[c].cls.intent
         /\ heap'[calls[c].ctx].collected_slots
              = MergeSlots(EmptyDict, calls'[c].cls.slots)

(* C31 as stated: a session left with a pending intent by an error response
   is not stuck: the next input whose classification carries a non-null
   intent replaces current_intent with that intent and discards the slots
   collected for the failed one, whatever the length of the input text. *)
C31_Original ==
    [][\A c \in Calls : Retried(c, calls'[c].cls.intent # None)]_vars

(* C31 amended: the same for the next input whose classification carries an
   intent that is neither null nor the empty string. *)
C31_Retry ==
    [][\A c \in Calls :
          Retried(c, calls'[c].cls.intent # None /\ calls'[c].cls.intent # "")]_vars

\* after a failed weather turn with a location, a two-token input classified
\* play_music has replaced the intent and the location by the artist
C31_Witness ==
    \E c \in Calls :
        /\ calls[c].pc = "handling"
        /\ calls[c].pre.current_intent = "weather_query"
        /\ calls[c].pre.awaiting_slot = None
        /\ "location" \in DOMAIN calls[c].pre.collected_slots
        /\ TokenCount(calls[c].text) <= ShortAnswerTokens
        /\ calls[c].cls.intent = "play_music"
        /\ calls[c].intent = "play_music"
        /\ DOMAIN calls[c].slots = {"artist"}

--------------------------------------------------------------------------
(* C32: with the slot registry as shipped, in every state reachable through
   process_input missing_slots is empty and awaiting_slot is unset in every
   context, no response has state awaiting_info and no turn takes the
   slot-answer path. *)
C32_ShippedNeverAsks ==
    registry = "shipped" =>
        /\ \A o \in Objs :
              /\ heap[o].missing_slots = <<>>
              /\ heap[o].awaiting_slot = None
        /\ \A c \in Calls :
              /\ calls[c].resp.state # "awaiting_info"
              /\ ~calls[c].resp.needs_more_info
              /\ calls[c].path # "slot"

\* under the shipped registry a weather_query without a location was
\* dispatched and answered completed on the new-intent path
C32_Witness ==
    /\ registry = "shipped"
    /\ \E c \in Calls :
          /\ calls[c].pc = "done"
          /\ calls[c].path = "new"
          /\ calls[c].cls.intent = "weather_query"
          /\ calls[c].cls.slots = <<>>
          /\ calls[c].category = "Weather"
          /\ calls[c].resp.state = "completed"
          /\ Len(heap[calls[c].ctx].history) >= 4

--------------------------------------------------------------------------
\* a turn that found a slot question pending and has been classified
PendingQuestionTurn(c) ==
    /\ calls[c].pc \in {"handling", "done"}
    /\ calls[c].pre.awaiting_slot # None

(* C33: while a slot question is pending, every process_input call on the
   session takes the slot-answer path, whatever intent, confidence or
   clarification flag the classifier returns: the turn does not change
   current_intent, and the session leaves the pending intent only by
   dispatching it to its handler. *)
C33_PendingQuestion ==
    \A c \in Calls :
        PendingQuestionTurn(c) =>
            LET pre == calls[c].pre
                ctx == heap[calls[c].ctx]
            IN  /\ calls[c].path = "slot"
                /\ IF calls[c].category = None
                   THEN /\ calls[c].resp.state = "awaiting_info"
                        /\ ctx.current_intent = pre.current_intent
                   ELSE /\ calls[c].intent = pre.current_intent
                        /\ calls[c].category = CategoryOf(pre.current_intent)
                        /\ ctx.current_intent =
                             (IF calls[c].resp.state = "completed"
                              THEN None ELSE pre.current_intent)

\* with the location question pending, a long input classified play_music
\* at low confidence was taken as the answer and weather_query was dispatched
C33_Witness ==
    \E c \in Calls :
        /\ PendingQuestionTurn(c)
        /\ calls[c].pre.current_intent = "weather_query"
        /\ calls[c].cls.intent = "play_music"
        /\ calls[c].cls.needs_clarification
        /\ TokenCount(calls[c].text) > ShortAnswerTokens
        /\ calls[c].path = "slot"
        /\ calls[c].intent = "weather_query"
        /\ calls[c].category = "Weather"

--------------------------------------------------------------------------
(* C34: for a schema with required slots, each slot-answer turn removes at
   least the awaited slot from missing_slots: a turn that starts with n
   missing slots either dispatches the intent or ends with fewer than n
   missing and a question other than the one it answered, so a session
   collecting n slots reaches dispatch after at most n further turns and
   never asks the same question on two consecutive turns. *)
C34_Progress ==
    \A c \in Calls :
        SlotAnswerTurn(c) =>
            LET pre == calls[c].pre
                ctx == heap[calls[c].ctx]
            IN  /\ Len(pre.missing_slots) >= 1
                /\ pre.awaiting_slot \in Range(pre.missing_slots)
                /\ IF calls[c].category # None
                   THEN calls[c].pc = "done" => calls[c].resp.state \in {"completed", "error"}
                   ELSE /\ Len(pre.missing_slots) >= 2
                        /\ Len(ctx.missing_slots) < Len(pre.missing_slots)
                        /\ pre.awaiting_slot \notin Range(ctx.missing_slots)
                        /\ ctx.awaiting_slot # pre.awaiting_slot
                        /\ calls[c].resp.follow_up_question
                             # SlotQuestion(pre.awaiting_slot)

\* a session with two missing slots has answered the first question with a
\* text the classifier extracted nothing from: one slot is left and the
\* second question is asked
C34_Witness ==
    \E c \in Calls :
        /\ SlotAnswerTurn(c)
        /\ calls[c].pre.missing_slots = <<"location", "datetime">>
        /\ calls[c].cls.slots = <<>>
        /\ heap[calls[c].ctx].missing_slots = <<"datetime">>
        /\ calls[c].resp.follow_up_question = SlotQuestion("datetime")

--------------------------------------------------------------------------
(* C35: every process_input turn handled for a session refreshes the
   session's last_updated, on the new-intent path and on the slot-answer
   path, so a cleanup_old_contexts(max_age) called when the turn has just
   been handled, less than max_age seconds ago, does not remove the
   session. *)
C35_TurnRefreshes ==
    [][\A c \in Calls :
          ClassifiedStep(c) =>
              /\ heap'[calls[c].ctx].last_updated = now
              /\ \A max_age_seconds \in MaxAges :
                    calls[c].user \notin to_remove(heap', store', now, max_age_seconds)
      ]_vars

--------------------------------------------------------------------------
(* C37: for every category the intent field of a completed response is the
   session's current_intent at the moment of dispatch, and the intent field
   of an awaiting_info or error response is the session's current_intent
   when the response is built. *)
C37_ResponseIntent ==
    [][\A c \in Calls :
          (calls[c].pc # "done" /\ calls'[c].pc = "done") =>
              LET r == calls'[c].resp
              IN  /\ r.state = "completed" => r.intent = calls[c].intent
                  /\ r.state \in {"awaiting_info", "error"} =>
                        r.intent = heap'[calls[c].ctx].current_intent
      ]_vars

--------------------------------------------------------------------------
(* Turns whose classifier answer names the location by its alias *)

\* classifier answers with no slot, the canonical name, the alias, and both
AliasData(u) ==
    {Data("weather_query", 95, <<>>),
     Data("weather_query", 95, <<Pair("location", ShortText(u))>>),
     Data("weather_query", 95, <<Pair("place_name", OtherValue(u))>>),
     Data("weather_query", 95, <<Pair("datetime", OtherValue(u)),
                                 Pair("place_name", OtherValue(u))>>)}

NextAlias ==
    \/ \E c \in Calls : \E text \in Texts(SessionOf(c)) : StartCall(c, SessionOf(c), text)
    \/ \E c \in Calls, outcome \in ClassifierOutcomes :
          \E data \in AliasData(calls[c].user) : ClassifierReturns(c, outcome, data)
    \/ \E c \in Calls, outcome \in {"ok", "raise"}, ui_mode \in UiModes :
          HandlerReturns(c, outcome, ui_mode)

SpecAlias == InitSlots /\ [][NextAlias]_vars

\* no key of the slots is an alias that SLOT_ALIASES maps to another name
CanonicalKeys(slots) == \A key \in DOMAIN slots : NormalizedKey(key) = key

(* C38: after any sequence of process_input turns, on the new-intent path
   and on the slot-answer path alike, every key of the session's
   collected_slots is a canonical slot name, never an alias that the alias
   table maps to a different name. *)
C38_CanonicalKeys ==
    \A c \in Calls :
        AtTurnBoundary(c) => CanonicalKeys(heap[calls[c].ctx].collected_slots)

--------------------------------------------------------------------------
(* C39: every process_input call that does not end in error appends to
   history the user's input as a user Turn and then the reply as an
   assistant Turn whose text is the response text, on the new-intent path
   and on the slot-answer path alike: history grows by exactly two Turns. *)
C39_TwoTurns ==
    \A c \in Calls :
        (calls[c].pc = "done" /\ calls[c].resp.state # "error") =>
            heap[calls[c].ctx].history =
                calls[c].pre.history \o <<Turn("user", calls[c].text),
                                          Turn("assistant", calls[c].resp.response)>>

--------------------------------------------------------------------------
(* Light-switching turns of two users on the shared controller, each call
   free to run while the other is suspended at its await of the classifier. *)

DeviceData(u) ==
    {Data("iot_hue_lighton", 92, <<>>),
     Data("iot_hue_lightoff", 92, <<>>),
     Data("iot_hue_lightoff", 92, <<Pair("device_name", ShortText(u))>>)}

NextDevices ==
    \/ \E c \in Calls : \E text \in Texts(SessionOf(c)) : StartCall(c, SessionOf(c), text)
    \/ \E c \in Calls, outcome \in ClassifierOutcomes :
          \E data \in DeviceData(calls[c].user) : ClassifierReturns(c, outcome, data)
    \/ \E c \in Calls, outcome \in {"ok", "raise"}, ui_mode \in UiModes :
          HandlerReturns(c, outcome, ui_mode)

SpecDevices == InitWith({"shipped"}) /\ [][NextDevices]_vars

\* call c dispatches an IoT intent in this step
IotDispatch(c) == ClassifiedStep(c) /\ calls'[c].category = "IoT"

(* C36: under every interleaving of concurrent process_input calls on the
   shared controller, an IoT intent dispatched in a turn for user u reads and
   changes only the device list of u: the service it goes through is bound to
   u, and no other user's device list is created or changed by the turn. *)
C36_OwnDevices ==
    [][\A c \in Calls :
          IotDispatch(c) =>
              /\ iot_service = calls[c].user
              /\ \A k \in DeviceKeys \ {calls[c].user} :
                    /\ k \in DOMAIN user_devices' <=> k \in DOMAIN user_devices
                    /\ k \in DOMAIN user_devices => user_devices'[k] = user_devices[k]
      ]_vars

==========================================================================
